---- MODULE Spec2Model ----
(***************************************************************************)
(* PostgreSQL unified collector: the collection cycle of one instance      *)
(* (UnifiedCollectionEngine), the multi-instance fan-out                   *)
(* (MultiInstanceManager) and the active-session-history sampler           *)
(* (ActiveSessionSampler).                                                 *)
(*                                                                         *)
(* Each component has its own specification (SpecEngine, SpecManager,      *)
(* SpecSampler); the variables of the components a specification does not *)
(* exercise stay at their quiescent values.                                *)
(***************************************************************************)
EXTENDS Integers, Sequences, FiniteSets, TLC

VARIABLES
    \* ---- UnifiedCollectionEngine (src/src/collection_engine.rs) ----
    pc,             \* position of collect_all_metrics / detect_capabilities
    cycle,          \* number of collect_all_metrics calls started
    det,            \* locals of detect_capabilities: version, ext_config, is_rds
    detect_result,  \* "none" | "Ok" | "Err": outcome of this cycle's detect_capabilities
    caps,           \* local `caps` of collect_all_metrics (NoCaps until detection returned)
    capabilities,   \* self.capabilities: the cached Option<Capabilities>
    metrics,        \* local `metrics`: the UnifiedMetrics under construction
    dispatched,     \* category queries sent to the database in this cycle, in order
    failed,         \* category queries of this cycle the database driver failed
    dialects,       \* the query text chosen for each entry of dispatched
    caps_changed,   \* the latest detection found another version, managed flag or
                    \* extension set than the one cached by the detection before it
    err_at,         \* the step at which this cycle's error arose ("none" if none did)
    plan_failed,    \* query_ids whose plan query failed in this cycle
    config,         \* self.config: the feature flags the engine was built with
    ash_copy,       \* what get_recent_samples returned in this cycle, if it was called
    result          \* "none" | "Ok" | "Err": what collect_all_metrics returned

engineVars == <<pc, cycle, det, detect_result, caps, capabilities, metrics,
                dispatched, dialects, caps_changed, failed, err_at, plan_failed, config, ash_copy, result>>

VARIABLES
    \* ---- MultiInstanceManager (src/src/multi_instance.rs) ----
    instances,      \* keys of self.instances: the registered instance names
    store,          \* collector.metrics of each instance: Option<UnifiedMetrics>
    m_pc,           \* collect_all: "idle" | "joining"
    round,          \* number of collect_all calls started
    task,           \* the future of each instance: "none" | "running" | "storing" | "Ok" | "Err"
    combined,       \* combined.instances of the collect_all call
    m_ret,          \* "none" | "Ok" | "Err": what the last collect_all returned
    completed,      \* number of collect_all calls that have returned
    last_failed,    \* instances whose collection failed in the last completed call
    s_pc,           \* send_all_metrics: "idle" | "sending"
    s_todo,         \* instances send_all_metrics has still to visit
    s_errors,       \* local `errors` of send_all_metrics
    s_ret,          \* "none" | "Ok" | "Err": what the last send_all_metrics returned
    s_since,        \* [completed, failed]: the last completed collect_all when the send began
    exported,       \* snapshots this send_all_metrics handed to send_metrics
    s_cur,          \* the instance whose send_metrics call is being awaited, or 0
    map_readers,    \* the functions holding a read guard of self.instances
    metrics_guard   \* per instance: "free" | "read", the guard of collector.metrics

managerVars == <<instances, store, m_pc, round, task, combined, m_ret, completed,
                 last_failed, s_pc, s_todo, s_errors, s_ret, s_since, exported, s_cur,
                 map_readers, metrics_guard>>

VARIABLES
    \* ---- ActiveSessionSampler (src/crates/extensions/src/lib.rs) ----
    cfg,              \* sample_interval, retention_period, max_samples, max_memory_mb
    env,              \* the observed environment: session counts a capture can return,
                      \* and the number of ticks observed
    samples,          \* self.samples: the VecDeque<ASHSample>
    now,              \* chrono::Utc::now(), in seconds
    t_pc,             \* the sampling task: "stopped" | "waiting" | "lock" |
                      \* "mem" | "evict" | "append" | "retain"
    current_samples,  \* local current_samples of the tick
    to_remove,        \* pop_front calls the memory check has still to make
    lock,             \* the RwLock of samples: "free" | "sampler"
    clean,            \* so far every tick captured exactly one session and nothing was
                      \* evicted by the memory check, the retention window or clear_samples
    returned,         \* the Vec a caller of get_recent_samples holds
    ret_kind,         \* "none" | "copy" | "live": what the caller's Vec is
    after_failure     \* "failed": the latest tick failed to acquire or to capture;
                      \* "resumed": the latest tick captured and the one before it failed;
                      \* "none" otherwise

samplerVars == <<cfg, env, samples, now, t_pc, current_samples, to_remove, lock,
                 clean, returned, ret_kind, after_failure>>

VARIABLES
    \* ---- PlanCache (src/database-intelligence-mvp/src/collection_engine.rs) ----
    plan_cache,       \* self.cache: the LruCache entries, least recently used first
    plan_capacity,    \* the capacity the LruCache was created with
    plan_ret,         \* the last PlanCache call: its arguments and what it returned
    last_hash,        \* per query id, the hash of the latest check_regression call (0: none)
    use_order,        \* query ids in the order of their latest check_regression call
    evicted           \* some entry has been removed from the cache

planVars == <<plan_cache, plan_capacity, plan_ret, last_hash, use_order, evicted>>

VARIABLES
    \* ---- eligibility decisions (src/crates/core/src/collector.rs,
    \*      src/crates/extensions/src/lib.rs, src/src/collection_engine.rs) ----
    e_caps,           \* the Capabilities value the decisions are asked about
    e_verdict         \* the implementation asked last, and the categories it let through

eligVars == <<e_caps, e_verdict>>

VARIABLES
    \* ---- query dispatch (src/crates/query-engine/src/engine.rs,
    \*      src/crates/query-engine/src/safe_queries.rs) ----
    d_in,             \* the arguments of a dispatch: category, version, is_rds, databases,
                      \* query_monitoring_count_threshold
    d_out             \* the function called last and what it returned or sent

dispVars == <<d_in, d_out>>

VARIABLES
    \* ---- threshold validation (src/crates/core/src/types.rs) ----
    th_in,            \* the configured count and response-time thresholds
    th_out            \* the function called last and the values it produced

threshVars == <<th_in, th_out>>

VARIABLES
    \* ---- slow-query text (src/crates/query-engine/src/engine.rs,
    \*      src/src/collection_engine.rs, src/src/sanitizer.rs) ----
    tx_in,            \* a slow-query text the database returns, and the engine's
                      \* query_sanitizer
    tx_out            \* the path taken last, the text the dispatcher returned and the
                      \* text retained

textVars == <<tx_in, tx_out>>

queryVars == <<dispVars, threshVars, textVars>>

VARIABLES
    \* ---- plan collection of the mvp engine
    \*      (src/database-intelligence-mvp/src/collection_engine.rs) ----
    pl_cfg,           \* max_plans_per_cycle and plan_collection_threshold_ms
    pl_cycle,         \* number of collect_execution_plans calls started
    pl_queries,       \* metrics.slow_queries of the cycle
    pl_todo,          \* plans_to_collect still to visit; None outside a call
    pl_attempted,     \* query_ids get_execution_plan was called for in this cycle
    pl_emitted,       \* metrics.execution_plans of the cycle
    pl_observed,      \* per emitted record: the plan, the plan observed before it for
                      \* the same query_id, and the hash stored before the record
    pl_seen           \* per query_id: the plan observed last, if any

mvpVars == <<pl_cfg, pl_cycle, pl_queries, pl_todo, pl_attempted, pl_emitted, pl_observed,
             pl_seen>>

VARIABLES
    \* ---- further callers of MultiInstanceManager (src/src/multi_instance.rs) ----
    g_pc,             \* get_instance_metrics: "idle" or "map" (holds the map's read guard)
    g_name,           \* its argument; 0 outside a call
    h_pc,             \* health_check: "idle" or "loop" (holds the map's read guard)
    h_todo,           \* instances its loop has still to visit
    health,           \* the HashMap its loop is building
    r_pc,             \* remove_instance: "idle" or "waiting" for the map's write guard
    r_name            \* its argument; 0 outside a call

callVars == <<g_pc, g_name, h_pc, h_todo, health, r_pc, r_name>>

VARIABLES
    \* ---- the collector binary and its health server
    \*      (src/src/bin/unified_collector.rs, src/src/health.rs) ----
    health_status,    \* the shared HealthStatus
    dry_run,          \* args.dry_run
    u_pc,             \* the collection loop: "tick" or "send" (awaiting send_metrics)
    u_succeeded,      \* collections that have returned Ok
    u_failed,         \* collections that have returned Err
    u_last,           \* outcome of the most recently completed collection
    http              \* the last response of the health server

readyVars == <<health_status, dry_run, u_pc, u_succeeded, u_failed, u_last, http>>

VARIABLES
    \* ---- CircuitBreaker (src/src/exporter.rs) ----
    breaker,          \* the CircuitBreaker's fields
    b_now,            \* Instant::now()
    b_since,          \* record_failure calls since the last record_success or new
    b_ret             \* the last call on the breaker, its instant, and what is_open
                      \* returned

breakerVars == <<breaker, b_now, b_since, b_ret>>

VARIABLES
    \* ---- CardinalityTracker (src/newrelic-collector.rs) ----
    query_fingerprints, \* the tracked fingerprint set
    limits,           \* CardinalityLimits.max_query_fingerprints
    c_mutex,          \* the task holding the set's Mutex, 0 when it is free
    c_arg,            \* per task: the fingerprint of its should_track_query call, or 0
    c_granted,        \* fingerprints some call has answered true for
    c_denied,         \* fingerprints some call has answered false for
    c_late,           \* fingerprints first seen when the set was at its limit
    c_ret             \* the last answer

trackerVars == <<query_fingerprints, limits, c_mutex, c_arg, c_granted, c_denied, c_late,
                 c_ret>>

auxVars == <<mvpVars, callVars, readyVars, breakerVars, trackerVars>>

vars == <<engineVars, managerVars, samplerVars, planVars, eligVars, queryVars, auxVars>>

(***************************************************************************)
(* Bounds of the model                                                     *)
(***************************************************************************)
MaxCycles == 2          \* collect_all_metrics calls per behaviour
MaxRounds == 2          \* collect_all calls per behaviour
NumInstances == 2       \* registered instances
MaxTicks == 7           \* sampler ticks observed, small buffers
MaxBatch == 2           \* sessions one capture returns, small buffers
MaxMemTicks == 3        \* sampler ticks observed, buffers of megabytes
BigBatch == 1500        \* sessions one capture returns, buffers of megabytes
RowsPerCategory == 1    \* rows the database holds for each category
ManyQueries == 12       \* rows of a long individual-query result
MaxPlanFailures == 1    \* plan queries that fail in one cycle
NumQueryIds == 3        \* query identities the plan cache sees
NumHashes == 2          \* plan hashes a query identity can show
SmallCapacity == 2      \* capacity of the small plan cache
MaxVersion == 15        \* highest server major version dispatched for
MaxPlanCycles == 2      \* collect_execution_plans calls of the mvp engine
MaxSlowQueries == 3     \* slow queries of one cycle of the mvp engine
MaxTextLen == 3         \* tokens of a slow-query text
MaxFingerprintLimit == 2 \* max_query_fingerprints of the trackers built
NumFingerprints == 3    \* distinct query fingerprints
NumTasks == 2           \* tasks calling should_track_query concurrently
MaxClock == 4           \* instants the circuit breaker's clock runs through
MaxFailures == 3        \* record_failure calls between two record_success calls
MaxBreakerThreshold == 2 \* thresholds of the circuit breakers built
MaxResetTimeout == 2    \* reset timeouts of the circuit breakers built
MaxAttempts == 3        \* collections the binary's loop attempts
MaxThreshold == 35      \* configured thresholds range over -MaxThreshold..MaxThreshold
                        \* and the two ends of i32

(***************************************************************************)
(* The database as the engine sees it                                      *)
(***************************************************************************)
Versions == {11, 12, 13, 14}
\* The version column of the version row: Some(v), or None for a NULL value.
VersionValues == [some : {TRUE}, v : Versions] \cup {[some |-> FALSE, v |-> 0]}
ExtNames == {"pg_stat_statements", "pg_wait_sampling", "pg_stat_monitor"}
Categories == {"slow_queries", "blocking_sessions", "wait_events", "individual_queries"}

\* The rows the database returns for a category when its query succeeds.
DbRows(c) == [i \in 1..RowsPerCategory |-> <<c, i>>]

\* IndividualQueryMetric rows: query_text is an Option.
IndividualRows(n, textless) ==
    [i \in 1..n |-> [query_id |-> i,
                     query_text |-> [some |-> i \notin textless, v |-> i]]]

\* The results the database returns for a category when its query succeeds; for
\* individual queries a short result, a long one, and a long one whose first row has
\* no query text.
DbResults(c) ==
    IF c = "individual_queries"
    THEN {IndividualRows(RowsPerCategory, {}), IndividualRows(ManyQueries, {}),
          IndividualRows(ManyQueries, {1})}
    ELSE {DbRows(c)}

\* Option<Capabilities>: None, and the test for Some.
NoCaps == [none |-> TRUE]
IsSome(c) == "version" \in DOMAIN c

\* ExtensionInfo entries as detect_capabilities builds them: enabled is always true.
ExtensionMap(installed) ==
    [n \in installed |-> [name |-> n, enabled |-> TRUE]]

\* Capabilities::has_extension
has_extension(c, name) ==
    IF name \in DOMAIN c.extensions THEN c.extensions[name].enabled ELSE FALSE

\* Capabilities::supports_wait_events
supports_wait_events(c) ==
    has_extension(c, "pg_stat_statements")
        /\ (has_extension(c, "pg_wait_sampling") \/ c.is_rds)

\* Capabilities::supports_blocking_sessions
supports_blocking_sessions(c) ==
    IF c.version \in {12, 13} THEN TRUE
    ELSE IF c.version >= 14 THEN has_extension(c, "pg_stat_statements")
    ELSE FALSE

\* Capabilities::supports_individual_queries
supports_individual_queries(c) ==
    has_extension(c, "pg_stat_monitor") \/ c.is_rds

\* OHIValidations::check_slow_query_metrics_fetch_eligibility
check_slow_query_metrics_fetch_eligibility(extensions) ==
    IF "pg_stat_statements" \in DOMAIN extensions
    THEN extensions["pg_stat_statements"].enabled ELSE FALSE

\* The eligibility decision of each category under a Capabilities value.
Eligible(c, category) ==
    CASE category = "slow_queries" ->
            check_slow_query_metrics_fetch_eligibility(c.extensions)
      [] category = "wait_events" -> supports_wait_events(c)
      [] category = "blocking_sessions" -> supports_blocking_sessions(c)
      [] category = "individual_queries" -> supports_individual_queries(c)

\* UnifiedMetrics::default()
DefaultMetrics ==
    [slow_queries |-> <<>>, blocking_sessions |-> <<>>, wait_events |-> <<>>,
     individual_queries |-> <<>>, execution_plans |-> <<>>,
     active_session_history |-> <<>>]

\* CollectorConfig::default: the feature flags
DefaultConfig == [enable_ash |-> FALSE, enable_extended_metrics |-> FALSE]

EngineConfigs == [enable_ash : BOOLEAN, enable_extended_metrics : BOOLEAN]

\* UnifiedCollectionEngine::new: the sampler exists iff enable_ash is set.
ash_sampler(c) == [some |-> c.enable_ash]

\* Buffers the sampler holds when the cycle asks for its recent samples.
AshBuffers == {<<>>, <<"sample">>}

\* version_row is the value of the version column as the query returned it.
NoDet ==
    [version |-> 0, version_row |-> [some |-> FALSE, v |-> 0], installed |-> {},
     is_rds |-> FALSE]

(***************************************************************************)
(* UnifiedCollectionEngine                                                 *)
(***************************************************************************)
EngineFields ==
    /\ pc = "idle"
    /\ cycle = 0
    /\ det = NoDet
    /\ detect_result = "none"
    /\ caps = NoCaps
    /\ capabilities = NoCaps
    /\ metrics = DefaultMetrics
    /\ dispatched = <<>>
    /\ dialects = <<>>
    /\ caps_changed = FALSE
    /\ failed = {}
    /\ err_at = "none"
    /\ plan_failed = {}
    /\ ash_copy = [some |-> FALSE, v |-> <<>>]
    /\ result = "none"

\* An engine built from the default configuration.
EngineInit ==
    /\ EngineFields
    /\ config = DefaultConfig

\* An engine built from any configuration.
EngineConfigured ==
    /\ EngineFields
    /\ config \in EngineConfigs

\* A caller invokes collect_all_metrics; the first thing it does is call
\* detect_capabilities, which acquires a pooled connection.
StartCycle ==
    /\ pc \in {"idle", "returned"}
    /\ cycle < MaxCycles
    /\ cycle' = cycle + 1
    /\ pc' = "detect_acquire"
    /\ det' = NoDet
    /\ detect_result' = "none"
    /\ caps' = NoCaps
    /\ metrics' = DefaultMetrics
    /\ dispatched' = <<>>
    /\ dialects' = <<>>
    /\ failed' = {}
    /\ err_at' = "none"
    /\ plan_failed' = {}
    /\ ash_copy' = [some |-> FALSE, v |-> <<>>]
    /\ result' = "none"
    /\ UNCHANGED <<capabilities, caps_changed, config>>

\* A detect_capabilities that logs its error and lets the cycle go on with default
\* capabilities instead of propagating it.
DetectError_swallowed ==
    /\ detect_result' = "Err"
    /\ err_at' = pc
    /\ caps' = [version |-> 12, is_rds |-> FALSE, extensions |-> ExtensionMap({}),
                has_superuser |-> FALSE]
    /\ pc' = "acquire"
    /\ UNCHANGED <<cycle, det, capabilities, caps_changed, metrics, dispatched, dialects, failed,
                   plan_failed, config, ash_copy, result>>

\* `?` inside detect_capabilities: the error leaves detect_capabilities and, through
\* the `?` at its call site, collect_all_metrics.
DetectError ==
    /\ detect_result' = "Err"
    /\ result' = "Err"
    /\ err_at' = pc
    /\ pc' = "returned"
    /\ UNCHANGED <<cycle, det, caps, capabilities, caps_changed, metrics, dispatched, dialects,
                   failed, plan_failed, config, ash_copy>>

\* `?` on a step of collect_all_metrics itself.
CycleError ==
    /\ result' = "Err"
    /\ err_at' = pc
    /\ pc' = "returned"
    /\ UNCHANGED <<cycle, det, detect_result, caps, capabilities, caps_changed, plan_failed, config,
                   ash_copy>>

DetectAcquire ==
    /\ pc = "detect_acquire"
    /\ \/ /\ pc' = "detect_version"
          /\ UNCHANGED <<cycle, det, detect_result, caps, capabilities, caps_changed, metrics,
                         dispatched, dialects, failed, err_at, plan_failed, config, ash_copy, result>>
       \/ DetectError

\* Option::unwrap_or
unwrap_or(opt, default) == IF opt.some THEN opt.v ELSE default

\* The server-version query; a NULL version becomes 12 (unwrap_or(12)).
DetectVersion ==
    /\ pc = "detect_version"
    /\ \/ \E row \in VersionValues :
            /\ det' = [det EXCEPT !.version = unwrap_or(row, 12), !.version_row = row]
            /\ pc' = "detect_extensions"
            /\ UNCHANGED <<cycle, detect_result, caps, capabilities, caps_changed, metrics,
                           dispatched, dialects, failed, err_at, plan_failed, config, ash_copy, result>>
       \/ DetectError

\* ExtensionManager::detect_and_configure: the pg_extension catalog query.
DetectExtensions ==
    /\ pc = "detect_extensions"
    /\ \/ \E installed \in SUBSET ExtNames :
            /\ det' = [det EXCEPT !.installed = installed]
            /\ pc' = "detect_is_rds"
            /\ UNCHANGED <<cycle, detect_result, caps, capabilities, caps_changed, metrics,
                           dispatched, dialects, failed, err_at, plan_failed, config, ash_copy, result>>
       \/ DetectError

\* check_is_rds: the managed-service heuristic query.
CheckIsRds ==
    /\ pc = "detect_is_rds"
    /\ \/ \E b \in BOOLEAN :
            /\ det' = [det EXCEPT !.is_rds = b]
            /\ pc' = "detect_superuser"
            /\ UNCHANGED <<cycle, detect_result, caps, capabilities, caps_changed, metrics,
                           dispatched, dialects, failed, err_at, plan_failed, config, ash_copy, result>>
       \/ DetectError

\* The two values describe the same version, managed flag and extension set.
SameDatabase(c1, c2) ==
    /\ c1.version = c2.version
    /\ c1.is_rds = c2.is_rds
    /\ c1.extensions = c2.extensions

\* A detect_capabilities that answers from self.capabilities once it is filled.
CheckSuperuser_cached ==
    /\ pc = "detect_superuser"
    /\ \/ \E su \in BOOLEAN :
            LET c == [version |-> det.version,
                      is_rds |-> det.is_rds,
                      extensions |-> ExtensionMap(det.installed),
                      has_superuser |-> su]
            IN  /\ capabilities' = (IF IsSome(capabilities) THEN capabilities ELSE c)
                /\ caps' = capabilities'
                /\ caps_changed' = (IsSome(capabilities) /\ ~SameDatabase(capabilities, c))
                /\ detect_result' = "Ok"
                /\ pc' = "acquire"
                /\ UNCHANGED <<cycle, det, metrics, dispatched, dialects, failed, err_at,
                               plan_failed, config, ash_copy, result>>
       \/ DetectError

\* check_superuser, then the Capabilities value is built, cached and returned.
CheckSuperuser ==
    /\ pc = "detect_superuser"
    /\ \/ \E su \in BOOLEAN :
            LET c == [version |-> det.version,
                      is_rds |-> det.is_rds,
                      extensions |-> ExtensionMap(det.installed),
                      has_superuser |-> su]
            IN  /\ capabilities' = c
                /\ caps' = c
                /\ caps_changed' = (IsSome(capabilities) /\ ~SameDatabase(capabilities, c))
                /\ detect_result' = "Ok"
                /\ pc' = "acquire"
                /\ UNCHANGED <<cycle, det, metrics, dispatched, dialects, failed, err_at, plan_failed, config, ash_copy, result>>
       \/ DetectError

\* self.connection_pool.acquire().await? in collect_all_metrics
Acquire ==
    /\ pc = "acquire"
    /\ \/ /\ pc' = "slow_queries"
          /\ UNCHANGED <<cycle, det, detect_result, caps, capabilities, caps_changed, metrics,
                         dispatched, dialects, failed, err_at, plan_failed, config, ash_copy, result>>
       \/ /\ CycleError
          /\ UNCHANGED <<metrics, dispatched, dialects, failed>>

\* The query text SafeQueryExecutor::execute_* picks for a category.
Dialect(category, c) ==
    CASE category = "slow_queries" ->
            IF c.version >= 13 THEN "v13" ELSE "v12"
      [] category = "wait_events" ->
            IF c.is_rds THEN "rds" ELSE "pg_wait_sampling"
      [] category = "blocking_sessions" ->
            IF c.is_rds THEN "rds" ELSE IF c.version >= 14 THEN "v14" ELSE "v12"
      [] category = "individual_queries" ->
            IF c.is_rds \/ c.version < 13 THEN "pg_stat_activity" ELSE "pg_stat_monitor"

\* The gate collect_all_metrics puts in front of each category's query.
Gate(c, category) ==
    IF category = "slow_queries"
    THEN "pg_stat_statements" \in DOMAIN c.extensions
    ELSE TRUE

NextPc(category) ==
    CASE category = "slow_queries" -> "blocking_sessions"
      [] category = "blocking_sessions" -> "wait_events"
      [] category = "wait_events" -> "individual_queries"
      [] category = "individual_queries" -> "execution_plans"

\* What collect_all_metrics does when a category's query returns an error.
OnCategoryError(category) ==
    /\ CycleError
    /\ failed' = failed \cup {category}
    /\ UNCHANGED metrics

\* One category of collect_all_metrics: gate, SafeQueryExecutor::execute_*, store.
Collect(category) ==
    /\ pc = category
    /\ IF Gate(caps, category)
       THEN \/ /\ dispatched' = Append(dispatched, category)
               /\ dialects' = Append(dialects, Dialect(category, caps))
               /\ \E rows \in DbResults(category) :
                      metrics' = [metrics EXCEPT ![category] = rows]
               /\ pc' = NextPc(category)
               /\ UNCHANGED <<cycle, det, detect_result, caps, capabilities, caps_changed,
                              failed, err_at, plan_failed, config, ash_copy, result>>
            \/ /\ OnCategoryError(category)
               /\ dispatched' = Append(dispatched, category)
               /\ dialects' = Append(dialects, Dialect(category, caps))
       ELSE /\ pc' = NextPc(category)
            /\ UNCHANGED <<cycle, det, detect_result, caps, capabilities, caps_changed, metrics,
                           dispatched, dialects, failed, err_at, plan_failed, config, ash_copy, result>>

CollectSlowQueries == Collect("slow_queries")
CollectBlockingSessions == Collect("blocking_sessions")
CollectWaitEvents == Collect("wait_events")
CollectIndividualQueries == Collect("individual_queries")

\* collect_execution_plans: at most the first PlanLimit individual queries, each
\* plan query may fail and is then skipped; the call itself always returns Ok.
PlanLimit == 10

Min(a, b) == IF a < b THEN a ELSE b

PlanFor(q) == <<"plan", q.query_id>>

\* The queries a plan is asked for: the first PlanLimit, those with a query text.
Attempted(queries) ==
    {i \in 1..Min(Len(queries), PlanLimit) : queries[i].query_text.some}

\* A loop that returns at the first plan query that fails.
RECURSIVE PlansOf_stops_at_failure(_, _, _)
PlansOf_stops_at_failure(queries, i, bad) ==
    IF i > Min(Len(queries), PlanLimit) THEN <<>>
    ELSE IF ~queries[i].query_text.some
         THEN PlansOf_stops_at_failure(queries, i + 1, bad)
    ELSE IF i \in bad THEN <<>>
    ELSE <<PlanFor(queries[i])>> \o PlansOf_stops_at_failure(queries, i + 1, bad)

\* The loop of collect_execution_plans from query i on; bad holds the queries whose
\* get_execution_plan returns Err.
RECURSIVE PlansOf(_, _, _)
PlansOf(queries, i, bad) ==
    IF i > Min(Len(queries), PlanLimit) THEN <<>>
    ELSE (IF queries[i].query_text.some /\ i \notin bad
          THEN <<PlanFor(queries[i])>> ELSE <<>>)
             \o PlansOf(queries, i + 1, bad)

CollectExecutionPlans ==
    /\ pc = "execution_plans"
    /\ IF metrics.individual_queries # <<>>
       THEN \E bad \in SUBSET Attempted(metrics.individual_queries) :
               /\ Cardinality(bad) <= MaxPlanFailures
               /\ plan_failed' = bad
               /\ metrics' = [metrics EXCEPT !.execution_plans =
                                 PlansOf(metrics.individual_queries, 1, bad)]
       ELSE UNCHANGED <<metrics, plan_failed>>
    /\ pc' = "extended_metrics"
    /\ UNCHANGED <<cycle, det, detect_result, caps, capabilities, caps_changed, dispatched, dialects,
                   failed, err_at, config, ash_copy, result>>

\* collect_extended_metrics: the sampler's recent samples go into the snapshot.
collect_extended_metrics(buffer) ==
    IF ash_sampler(config).some
    THEN /\ metrics' = [metrics EXCEPT !.active_session_history = buffer]
         /\ ash_copy' = [some |-> TRUE, v |-> buffer]
    ELSE UNCHANGED <<metrics, ash_copy>>

\* `if self.config.enable_extended_metrics { self.collect_extended_metrics(..) }`
CollectExtendedMetrics ==
    /\ pc = "extended_metrics"
    /\ IF config.enable_extended_metrics
       THEN \E buffer \in AshBuffers : collect_extended_metrics(buffer)
       ELSE UNCHANGED <<metrics, ash_copy>>
    /\ pc' = "finish"
    /\ UNCHANGED <<cycle, det, detect_result, caps, capabilities, caps_changed, dispatched, dialects,
                   failed, err_at, plan_failed, config, result>>

\* Ok(metrics)
Return ==
    /\ pc = "finish"
    /\ result' = "Ok"
    /\ pc' = "returned"
    /\ UNCHANGED <<cycle, det, detect_result, caps, capabilities, caps_changed, metrics,
                   dispatched, dialects, failed, err_at, plan_failed, config, ash_copy>>

(***************************************************************************)
(* ActiveSessionSampler                                                    *)
(***************************************************************************)
BYTES_PER_SAMPLE == 700
BytesPerMB == 1024 * 1024
DefaultMaxMemoryMb == 100

\* ActiveSessionSampler::new followed by with_memory_limit when limit is Some.
NewSampler(sample_interval, retention_period, limit) ==
    [sample_interval |-> sample_interval,
     retention_period |-> retention_period,
     max_samples |-> retention_period \div sample_interval,
     max_memory_mb |-> IF limit.some THEN limit.v ELSE DefaultMaxMemoryMb]

None == [some |-> FALSE, v |-> 0]
Some(x) == [some |-> TRUE, v |-> x]

\* Samplers with buffers of a few samples.
SmallConfigs ==
    {NewSampler(1, 5, None), NewSampler(2, 5, None), NewSampler(1, 3, Some(1))}

\* Samplers whose buffer holds megabytes, with a ceiling of one megabyte.
MemConfigs == {NewSampler(1, 2 * BigBatch, Some(1))}

\* ActiveSessionSampler::estimate_memory_usage
estimate_memory_usage(buf) ==
    (Len(buf) * BYTES_PER_SAMPLE) \div BytesPerMB

SamplerFields(c, e) ==
    /\ cfg = c
    /\ env = e
    /\ samples = <<>>
    /\ now = 0
    /\ t_pc = "stopped"
    /\ current_samples = <<>>
    /\ to_remove = 0
    /\ lock = "free"
    /\ clean = TRUE
    /\ returned = <<>>
    /\ ret_kind = "none"
    /\ after_failure = "none"

\* A sampler that is constructed and never started or called.
SamplerIdle ==
    SamplerFields(NewSampler(1, 1, None), [batches |-> {}, ticks |-> 0])

SamplerInit ==
    \E c \in SmallConfigs :
        SamplerFields(c, [batches |-> 0..MaxBatch, ticks |-> MaxTicks])

SamplerMemInit ==
    \E c \in MemConfigs :
        SamplerFields(c, [batches |-> {1, BigBatch}, ticks |-> MaxMemTicks])

Ticks == now \div cfg.sample_interval

\* What the caller's Vec holds after the buffer has changed to `buf`.
CallerSees(buf) == IF ret_kind = "live" THEN buf ELSE returned

\* VecDeque::pop_front
pop_front(buf) == IF buf = <<>> THEN buf ELSE Tail(buf)

\* start_sampling: the background task is spawned.
start_sampling ==
    /\ t_pc = "stopped"
    /\ t_pc' = "waiting"
    /\ UNCHANGED <<cfg, env, after_failure, samples, now, current_samples, to_remove, lock, clean,
                   returned, ret_kind>>

\* capture_active_sessions: one ASHSample per active session, all stamped now.
Captured(n, t) == [k \in 1..n |-> [sample_time |-> t, pid |-> k]]

\* interval_timer.tick().await; the connection is acquired and the sessions are
\* captured.
tick_capture ==
    /\ t_pc = "waiting"
    /\ Ticks < env.ticks
    /\ \E n \in env.batches :
          /\ now' = now + cfg.sample_interval
          /\ current_samples' = Captured(n, now')
          /\ clean' = (clean /\ n = 1)
    /\ t_pc' = "lock"
    /\ after_failure' = (IF after_failure = "failed" THEN "resumed" ELSE "none")
    /\ UNCHANGED <<cfg, env, samples, to_remove, lock, returned, ret_kind>>

\* A failing tick that still makes room in the buffer.
tick_failed_evicts ==
    /\ t_pc = "waiting"
    /\ Ticks < env.ticks
    /\ now' = now + cfg.sample_interval
    /\ clean' = FALSE
    /\ after_failure' = "failed"
    /\ samples' = pop_front(samples)
    /\ returned' = CallerSees(samples')
    /\ UNCHANGED <<cfg, env, t_pc, current_samples, to_remove, lock, ret_kind>>

\* interval_timer.tick().await; conn_pool.acquire() or capture_active_sessions
\* fails: neither `if let Ok` body runs and the loop goes to the next tick.
tick_failed ==
    /\ t_pc = "waiting"
    /\ Ticks < env.ticks
    /\ now' = now + cfg.sample_interval
    /\ clean' = FALSE
    /\ after_failure' = "failed"
    /\ UNCHANGED <<cfg, env, samples, t_pc, current_samples, to_remove, lock,
                   returned, ret_kind>>

\* A tick that goes from the lock straight to the insertion loop.
tick_lock_skips_memory ==
    /\ t_pc = "lock"
    /\ lock = "free"
    /\ lock' = "sampler"
    /\ t_pc' = "append"
    /\ UNCHANGED <<cfg, env, after_failure, samples, now, current_samples, to_remove,
                   clean, returned, ret_kind>>

\* samples.write().await
tick_lock ==
    /\ t_pc = "lock"
    /\ lock = "free"
    /\ lock' = "sampler"
    /\ t_pc' = "mem"
    /\ UNCHANGED <<cfg, env, after_failure, samples, now, current_samples, to_remove, clean,
                   returned, ret_kind>>

\* The memory check in front of the insertion: over the ceiling, a tenth of the
\* buffer is removed from the front, one pop_front at a time.
tick_memory ==
    /\ t_pc \in {"mem", "evict"}
    /\ IF t_pc = "mem"
       THEN /\ IF estimate_memory_usage(samples) > cfg.max_memory_mb
               THEN /\ to_remove' = Len(samples) \div 10
                    /\ t_pc' = "evict"
               ELSE /\ to_remove' = 0
                    /\ t_pc' = "append"
            /\ UNCHANGED <<samples, clean>>
       ELSE IF to_remove > 0
            THEN /\ samples' = pop_front(samples)
                 /\ to_remove' = to_remove - 1
                 /\ clean' = FALSE
                 /\ UNCHANGED t_pc
            ELSE /\ t_pc' = "append"
                 /\ UNCHANGED <<samples, to_remove, clean>>
    /\ returned' = CallerSees(samples')
    /\ UNCHANGED <<cfg, env, after_failure, now, current_samples, lock, ret_kind>>

\* An insertion that never removes anything.
PushOne_unbounded(buf, sample) == Append(buf, sample)

\* An insertion that makes room by dropping the sample it has just pushed.
PushOne_pop_back(buf, sample) ==
    LET pushed == Append(buf, sample)
    IN  IF Len(pushed) > cfg.max_samples
        THEN SubSeq(pushed, 1, Len(pushed) - 1) ELSE pushed

\* One iteration of the insertion loop: push_back, then pop_front when over
\* max_samples.
PushOne(buf, sample) ==
    LET pushed == Append(buf, sample)
    IN  IF Len(pushed) > cfg.max_samples THEN pop_front(pushed) ELSE pushed

\* for sample in current_samples { ... }
tick_append ==
    /\ t_pc = "append"
    /\ IF current_samples # <<>>
       THEN /\ samples' = PushOne(samples, Head(current_samples))
            /\ current_samples' = Tail(current_samples)
            /\ UNCHANGED t_pc
       ELSE /\ t_pc' = "retain"
            /\ UNCHANGED <<samples, current_samples>>
    /\ returned' = CallerSees(samples')
    /\ UNCHANGED <<cfg, env, after_failure, now, to_remove, lock, clean, ret_kind>>

\* let cutoff = chrono::Utc::now() - retention
Cutoff == now - cfg.retention_period

\* A tick that drops the write guard without looking at the retention window.
tick_retain_keeps_all ==
    /\ t_pc = "retain"
    /\ lock' = "free"
    /\ t_pc' = "waiting"
    /\ returned' = CallerSees(samples)
    /\ UNCHANGED <<cfg, env, after_failure, now, current_samples, to_remove, samples, clean,
                   ret_kind>>

\* while let Some(front) = front() { if front.sample_time < cutoff { pop_front }
\* else { break } }; then the write guard is dropped.
tick_retain ==
    /\ t_pc = "retain"
    /\ IF samples # <<>> /\ Head(samples).sample_time < Cutoff
       THEN /\ samples' = pop_front(samples)
            /\ clean' = FALSE
            /\ UNCHANGED <<t_pc, lock>>
       ELSE /\ lock' = "free"
            /\ t_pc' = "waiting"
            /\ UNCHANGED <<samples, clean>>
    /\ returned' = CallerSees(samples')
    /\ UNCHANGED <<cfg, env, after_failure, now, current_samples, to_remove, ret_kind>>

\* A get_recent_samples that hands out the buffer itself.
RecentSamplesKind_live == "live"

\* What get_recent_samples hands to its caller: a Vec of clones.
RecentSamplesKind == "copy"

\* get_recent_samples: self.samples.read().await.iter().cloned().collect()
get_recent_samples ==
    /\ lock = "free"
    /\ returned' = samples
    /\ ret_kind' = RecentSamplesKind
    /\ UNCHANGED <<cfg, env, after_failure, samples, now, t_pc, current_samples, to_remove, lock,
                   clean>>

\* The caller changes the Vec it was handed (here: removes its first element).
caller_mutates ==
    /\ ret_kind # "none"
    /\ returned # <<>>
    /\ returned' = Tail(returned)
    /\ samples' = IF ret_kind = "live" THEN returned' ELSE samples
    /\ UNCHANGED <<cfg, env, after_failure, now, t_pc, current_samples, to_remove, lock, clean,
                   ret_kind>>

\* A clear_samples that also ends the sampling task.
clear_samples_stops_task ==
    /\ lock = "free"
    /\ samples' = <<>>
    /\ returned' = CallerSees(samples')
    /\ clean' = FALSE
    /\ t_pc' = "stopped"
    /\ UNCHANGED <<cfg, env, after_failure, now, current_samples, to_remove, lock, ret_kind>>

\* clear_samples: the write guard is taken when it is free, the buffer is cleared and
\* the guard dropped.
clear_samples ==
    /\ lock = "free"
    /\ samples' = <<>>
    /\ returned' = CallerSees(samples')
    /\ clean' = FALSE
    /\ UNCHANGED <<cfg, env, after_failure, now, t_pc, current_samples, to_remove, lock, ret_kind>>

SamplerNext ==
    \/ start_sampling /\ UNCHANGED <<engineVars, managerVars, planVars, eligVars, queryVars, auxVars>>
    \/ tick_capture /\ UNCHANGED <<engineVars, managerVars, planVars, eligVars, queryVars, auxVars>>
    \/ tick_failed /\ UNCHANGED <<engineVars, managerVars, planVars, eligVars, queryVars, auxVars>>
    \/ tick_lock /\ UNCHANGED <<engineVars, managerVars, planVars, eligVars, queryVars, auxVars>>
    \/ tick_memory /\ UNCHANGED <<engineVars, managerVars, planVars, eligVars, queryVars, auxVars>>
    \/ tick_append /\ UNCHANGED <<engineVars, managerVars, planVars, eligVars, queryVars, auxVars>>
    \/ tick_retain /\ UNCHANGED <<engineVars, managerVars, planVars, eligVars, queryVars, auxVars>>
    \/ get_recent_samples /\ UNCHANGED <<engineVars, managerVars, planVars, eligVars, queryVars, auxVars>>
    \/ caller_mutates /\ UNCHANGED <<engineVars, managerVars, planVars, eligVars, queryVars, auxVars>>
    \/ clear_samples /\ UNCHANGED <<engineVars, managerVars, planVars, eligVars, queryVars, auxVars>>

(***************************************************************************)
(* PlanCache                                                               *)
(***************************************************************************)
\* PlanCache::new(10000) in UnifiedCollectionEngine::new
DefaultPlanCapacity == 10000

QueryIds == 1..NumQueryIds
Hashes == 1..NumHashes
NoHash == 0
PlanCapacities == {SmallCapacity, DefaultPlanCapacity}

\* The PlanFingerprint check_regression stores: cost 0.0 and node_count 0 always.
PlanFingerprint(query_id, hash) == [query_id |-> query_id, hash |-> hash]

Keys(cache) == {cache[i].query_id : i \in 1..Len(cache)}

Without(cache, k) == SelectSeq(cache, LAMBDA e : e.query_id # k)

Entry(cache, k) == cache[CHOOSE i \in 1..Len(cache) : cache[i].query_id = k]

\* An LruCache::get that leaves the recency order alone.
LruGet_no_promote(cache, k) == cache

\* LruCache::get: a hit moves the entry to the most recently used end.
LruGet(cache, k) ==
    IF k \in Keys(cache) THEN Append(Without(cache, k), Entry(cache, k)) ELSE cache

\* LruCache::peek: the stored hash, without touching the recency order.
LruPeek(cache, k) == IF k \in Keys(cache) THEN Entry(cache, k).hash ELSE NoHash

\* LruCache::put: an existing key is updated and becomes most recently used; a new
\* key in a full cache replaces the least recently used entry.
LruPut(cache, cap, k, h) ==
    IF k \in Keys(cache) THEN Append(Without(cache, k), PlanFingerprint(k, h))
    ELSE IF Len(cache) >= cap THEN Append(Tail(cache), PlanFingerprint(k, h))
    ELSE Append(cache, PlanFingerprint(k, h))

PlanFields(cap) ==
    /\ plan_cache = <<>>
    /\ plan_capacity = cap
    /\ plan_ret = [op |-> "none", query_id |-> 0, hash |-> NoHash, ret |-> FALSE,
                   previous |-> NoHash, before |-> NoHash]
    /\ last_hash = [q \in QueryIds |-> NoHash]
    /\ use_order = <<>>
    /\ evicted = FALSE

\* The cache of an engine no plan is collected for.
PlanIdle == PlanFields(DefaultPlanCapacity)

\* PlanCache::new(capacity)
PlanInit == \E cap \in PlanCapacities : PlanFields(cap)

\* What every check_regression call leaves behind, whatever it stores.
Called(query_id, new_hash, ret) ==
    /\ plan_ret' = [op |-> "check_regression", query_id |-> query_id,
                    hash |-> new_hash, ret |-> ret, previous |-> NoHash,
                    before |-> last_hash[query_id]]
    /\ last_hash' = [last_hash EXCEPT ![query_id] = new_hash]
    /\ use_order' = Append(SelectSeq(use_order, LAMBDA q : q # query_id), query_id)
    /\ evicted' = (evicted \/ ~(Keys(plan_cache) \subseteq Keys(plan_cache')))
    /\ UNCHANGED plan_capacity

\* A check_regression that reports a changed hash and keeps the hash it had stored.
check_regression_keeps_first(query_id, new_hash) ==
    LET hit == query_id \in Keys(plan_cache)
        existing == LruPeek(plan_cache, query_id)
        got == LruGet(plan_cache, query_id)
    IN  IF hit
        THEN /\ plan_cache' = got
             /\ Called(query_id, new_hash, existing # new_hash)
        ELSE /\ plan_cache' = LruPut(got, plan_capacity, query_id, new_hash)
             /\ Called(query_id, new_hash, FALSE)

\* PlanCache::check_regression
check_regression(query_id, new_hash) ==
    LET hit == query_id \in Keys(plan_cache)
        existing == LruPeek(plan_cache, query_id)
        got == LruGet(plan_cache, query_id)
    IN  IF hit
        THEN IF existing # new_hash
             THEN /\ plan_cache' = LruPut(got, plan_capacity, query_id, new_hash)
                  /\ Called(query_id, new_hash, TRUE)
             ELSE /\ plan_cache' = got
                  /\ Called(query_id, new_hash, FALSE)
        ELSE /\ plan_cache' = LruPut(got, plan_capacity, query_id, new_hash)
             /\ Called(query_id, new_hash, FALSE)

CheckAndUpdate == \E q \in QueryIds, h \in Hashes : check_regression(q, h)

\* PlanCache::get_previous_hash
get_previous_hash(query_id) ==
    /\ plan_ret' = [op |-> "get_previous_hash", query_id |-> query_id,
                    hash |-> NoHash, ret |-> FALSE,
                    previous |-> LruPeek(plan_cache, query_id),
                    before |-> last_hash[query_id]]
    /\ UNCHANGED <<plan_cache, plan_capacity, last_hash, use_order, evicted>>

GetPreviousHash == \E q \in QueryIds : get_previous_hash(q)

(***************************************************************************)
(* Plan collection of the mvp engine: generate_plan_hash,                  *)
(* collect_execution_plans                                                 *)
(***************************************************************************)
\* A node of an EXPLAIN plan; "" stands for a key the node does not have.
PlanNode(node_type, join_type, index_name, total_cost, plans) ==
    [node_type |-> node_type, join_type |-> join_type, index_name |-> index_name,
     total_cost |-> total_cost, plans |-> plans]

SeqScan(cost) == PlanNode("Seq Scan", "", "", cost, <<>>)
IndexScan(cost) == PlanNode("Index Scan", "", "t_pkey", cost, <<>>)
NestedLoop(cost, inner_cost) ==
    PlanNode("Nested Loop", "Inner", "", cost, <<SeqScan(inner_cost), IndexScan(1)>>)

\* The plans EXPLAIN returns.
PlanTrees == {SeqScan(1), IndexScan(1), NestedLoop(1, 1), NestedLoop(2, 2)}

\* Sha256 of a byte string, then format!("{:x}"): one value per input.
Sha256(bytes) == <<"sha256", bytes>>

RECURSIVE ChildHashes(_, _)
RECURSIVE generate_plan_hash(_)

\* The hasher.update calls of the loop over plan["Plans"], from child i on
ChildHashes(plans, i) ==
    IF i > Len(plans) THEN <<>>
    ELSE <<generate_plan_hash(plans[i])>> \o ChildHashes(plans, i + 1)

\* A generate_plan_hash that also feeds the total cost to the hasher.
generate_plan_hash_with_cost(plan) ==
    Sha256((<<plan.node_type, ToString(plan.total_cost)>>)
           \o (IF plan.join_type # "" THEN <<plan.join_type>> ELSE <<>>)
           \o (IF plan.index_name # "" THEN <<plan.index_name>> ELSE <<>>)
           \o ChildHashes(plan.plans, 1))

\* UnifiedCollectionEngine::generate_plan_hash
generate_plan_hash(plan) ==
    Sha256((<<plan.node_type>>)
           \o (IF plan.join_type # "" THEN <<plan.join_type>> ELSE <<>>)
           \o (IF plan.index_name # "" THEN <<plan.index_name>> ELSE <<>>)
           \o ChildHashes(plan.plans, 1))

\* The tree of node type, join type and index name of a plan.
RECURSIVE Structure(_)
Structure(plan) ==
    [node_type |-> plan.node_type, join_type |-> plan.join_type,
     index_name |-> plan.index_name,
     plans |-> [i \in 1..Len(plan.plans) |-> Structure(plan.plans[i])]]

MeanTimes == {100, 150}
PlanThreshold == 100

\* The slow queries of a cycle, in the order of the query (by total time).
SlowQueryResults ==
    UNION {[1..n -> MeanTimes] : n \in 0..MaxSlowQueries}

SlowQueries(times) ==
    [i \in 1..Len(times) |-> [query_id |-> i, mean_time_ms |-> times[i]]]

PlanConfigs ==
    [max_plans_per_cycle : {1, 2}, plan_collection_threshold_ms : {PlanThreshold}]

\* Iterator::take(n)
Take(seq, n) == SubSeq(seq, 1, Min(Len(seq), n))

\* plans_to_collect
plans_to_collect(slow_queries, c) ==
    SelectSeq(Take(slow_queries, c.max_plans_per_cycle),
              LAMBDA q : q.mean_time_ms > c.plan_collection_threshold_ms)

\* Option<String> of PlanCache::get_previous_hash
PreviousHash(cache, query_id) ==
    IF query_id \in Keys(cache)
    THEN [some |-> TRUE, v |-> Entry(cache, query_id).hash]
    ELSE [some |-> FALSE, v |-> <<>>]

NoPlan == [some |-> FALSE, v |-> <<>>]

\* No plan collection has run.
MvpIdle ==
    /\ pl_cfg = [max_plans_per_cycle |-> 0, plan_collection_threshold_ms |-> 0]
    /\ pl_cycle = 0
    /\ pl_queries = <<>>
    /\ pl_todo = NoPlan
    /\ pl_attempted = <<>>
    /\ pl_emitted = <<>>
    /\ pl_observed = <<>>
    /\ pl_seen = [q \in 1..MaxSlowQueries |-> NoPlan]

MvpInit ==
    /\ pl_cfg \in PlanConfigs
    /\ pl_cycle = 0
    /\ pl_queries = <<>>
    /\ pl_todo = NoPlan
    /\ pl_attempted = <<>>
    /\ pl_emitted = <<>>
    /\ pl_observed = <<>>
    /\ pl_seen = [q \in 1..MaxSlowQueries |-> NoPlan]

\* collect_execution_plans is entered with the slow queries of a cycle.
collect_execution_plans_begin ==
    /\ pl_todo = NoPlan
    /\ pl_cycle < MaxPlanCycles
    /\ pl_cycle' = pl_cycle + 1
    /\ \E times \in SlowQueryResults :
          /\ pl_queries' = SlowQueries(times)
          /\ pl_todo' = [some |-> TRUE,
                          v |-> plans_to_collect(SlowQueries(times), pl_cfg)]
    /\ pl_attempted' = <<>>
    /\ pl_emitted' = <<>>
    /\ pl_observed' = <<>>
    /\ UNCHANGED <<pl_cfg, pl_seen, planVars>>

\* One iteration of the loop whose get_execution_plan returns Err.
plan_step_err ==
    /\ pl_todo.some
    /\ pl_todo.v # <<>>
    /\ pl_todo' = [pl_todo EXCEPT !.v = Tail(pl_todo.v)]
    /\ pl_attempted' = Append(pl_attempted, Head(pl_todo.v).query_id)
    /\ UNCHANGED <<pl_cfg, pl_cycle, pl_queries, pl_emitted, pl_observed, pl_seen,
                   planVars>>

\* One iteration of the loop whose get_execution_plan returns a plan: its hash,
\* check_regression, and the record pushed, with previous_plan_hash read from the
\* cache after check_regression.
plan_step_ok ==
    /\ pl_todo.some
    /\ pl_todo.v # <<>>
    /\ \E plan \in PlanTrees :
          LET query_id == Head(pl_todo.v).query_id
              plan_hash == generate_plan_hash(plan)
          IN  /\ check_regression(query_id, plan_hash)
              /\ pl_emitted' = Append(pl_emitted,
                    [query_id |-> query_id, plan_hash |-> plan_hash,
                     is_regression |-> plan_ret'.ret,
                     previous_plan_hash |->
                         IF plan_ret'.ret THEN PreviousHash(plan_cache', query_id)
                         ELSE NoPlan,
                     total_cost |-> plan.total_cost])
              /\ pl_observed' = Append(pl_observed,
                    [plan |-> plan,
                     previous_plan |-> pl_seen[query_id],
                     stored_before |-> PreviousHash(plan_cache, query_id)])
              /\ pl_attempted' = Append(pl_attempted, query_id)
              /\ pl_seen' = [pl_seen EXCEPT ![query_id] = [some |-> TRUE, v |-> plan]]
    /\ pl_todo' = [pl_todo EXCEPT !.v = Tail(pl_todo.v)]
    /\ UNCHANGED <<pl_cfg, pl_cycle, pl_queries>>

\* collect_execution_plans returns.
collect_execution_plans_return ==
    /\ pl_todo = [some |-> TRUE, v |-> <<>>]
    /\ pl_todo' = NoPlan
    /\ UNCHANGED <<pl_cfg, pl_cycle, pl_queries, pl_attempted, pl_emitted, pl_observed,
                   pl_seen, planVars>>

(***************************************************************************)
(* Eligibility decisions                                                   *)
(***************************************************************************)
\* OHIValidations::check_wait_event_metrics_fetch_eligibility
check_wait_event_metrics_fetch_eligibility(extensions) ==
    (IF "pg_stat_statements" \in DOMAIN extensions
     THEN extensions["pg_stat_statements"].enabled ELSE FALSE)
        /\ (IF "pg_wait_sampling" \in DOMAIN extensions
            THEN extensions["pg_wait_sampling"].enabled ELSE FALSE)

\* OHIValidations::check_blocking_session_metrics_fetch_eligibility
check_blocking_session_metrics_fetch_eligibility(extensions, version) ==
    IF version = 12 \/ version = 13 THEN TRUE
    ELSE IF "pg_stat_statements" \in DOMAIN extensions
         THEN extensions["pg_stat_statements"].enabled ELSE FALSE

\* OHIValidations::check_individual_query_metrics_fetch_eligibility
check_individual_query_metrics_fetch_eligibility(extensions) ==
    IF "pg_stat_monitor" \in DOMAIN extensions
    THEN extensions["pg_stat_monitor"].enabled ELSE FALSE

\* The decision of OHIValidations for each category.
OHIEligible(c, category) ==
    CASE category = "slow_queries" ->
            check_slow_query_metrics_fetch_eligibility(c.extensions)
      [] category = "wait_events" ->
            check_wait_event_metrics_fetch_eligibility(c.extensions)
      [] category = "blocking_sessions" ->
            check_blocking_session_metrics_fetch_eligibility(c.extensions, c.version)
      [] category = "individual_queries" ->
            check_individual_query_metrics_fetch_eligibility(c.extensions)

\* HashMap<String, ExtensionInfo> values over the extensions in `names`: an entry is
\* keyed by its name and is enabled or not.
ExtensionMaps(names) ==
    {m \in [names -> [name : ExtNames, enabled : BOOLEAN]] :
        \A n \in names : m[n].name = n}

\* Every Capabilities value over the modelled versions and extensions.
AllCapabilities ==
    UNION {[version : Versions, is_rds : BOOLEAN, extensions : ExtensionMaps(names),
            has_superuser : BOOLEAN] : names \in SUBSET ExtNames}

Implementations == {"Capabilities", "OHIValidations", "collect_all_metrics"}

\* The categories an implementation lets through for a Capabilities value.
Verdict(impl, c) ==
    CASE impl = "Capabilities" -> {cat \in Categories : Eligible(c, cat)}
      [] impl = "OHIValidations" -> {cat \in Categories : OHIEligible(c, cat)}
      [] impl = "collect_all_metrics" -> {cat \in Categories : Gate(c, cat)}

NoVerdict == [impl |-> "none", eligible |-> {}]

\* No decision is asked for.
EligIdle ==
    /\ e_caps = NoCaps
    /\ e_verdict = NoVerdict

EligInit ==
    /\ e_caps \in AllCapabilities
    /\ e_verdict = NoVerdict

Evaluate(impl) ==
    /\ e_verdict' = [impl |-> impl, eligible |-> Verdict(impl, e_caps)]
    /\ UNCHANGED e_caps

\* has_extension and the supports_* methods of Capabilities
EvalCapabilities == Evaluate("Capabilities")

\* the check_*_eligibility functions of OHIValidations
EvalOHIValidations == Evaluate("OHIValidations")

\* the conditions collect_all_metrics puts in front of its queries
EvalGate == Evaluate("collect_all_metrics")

(***************************************************************************)
(* Query dispatch: QueryEngine, OHICompatibleQueryExecutor,                *)
(* SafeQueryExecutor                                                       *)
(***************************************************************************)
\* Text is a sequence of tokens.
DispatchVersions == 10..MaxVersion
DatabaseLists == {<<"postgres">>, <<"postgres", "app">>}
CountThresholds == {10, 20}
DefaultResponseThreshold == 500

\* Vec<String>::join(","): self.config.databases.join(",")
RECURSIVE Join(_)
Join(names) ==
    IF Len(names) = 0 THEN <<>>
    ELSE IF Len(names) = 1 THEN names
    ELSE <<Head(names), ",">> \o Join(Tail(names))

\* str::split(','), for a text that neither starts nor ends with a comma
RECURSIVE Split(_)
Split(text) ==
    IF text = <<>> THEN <<>>
    ELSE IF Head(text) = "," THEN Split(Tail(text))
    ELSE <<Head(text)>> \o Split(Tail(text))

\* str::replace(from, to) with a single-token pattern
RECURSIVE Replace(_, _, _)
Replace(text, from, to) ==
    IF text = <<>> THEN <<>>
    ELSE (IF Head(text) = from THEN to ELSE <<Head(text)>>)
             \o Replace(Tail(text), from, to)

\* CommonParameters as collect_all_metrics builds it
CommonParams(in) ==
    [version |-> in.version,
     databases |-> Join(in.databases),
     query_monitoring_count_threshold |-> in.count_threshold,
     query_monitoring_response_time_threshold |-> DefaultResponseThreshold,
     is_rds |-> in.is_rds]

\* QueryRegistry::new: the registered keys
RegisteredKeys ==
    {"slow_queries_v12", "slow_queries_v13+", "wait_events", "wait_events_rds",
     "blocking_v12_13", "blocking_v14+", "blocking_rds", "individual_v12",
     "individual_v13+", "ash_sample", "plan_history", "buffer_stats_detail"}

\* The registered template of a key: its own text, with the placeholder %s in the
\* database filter and %d in the LIMIT clause.
Template(key) == <<key, "IN", "(", "%s", ")", "LIMIT", "%d">>

QueryKeys ==
    {"slow_queries", "blocking", "individual", "wait_events", "wait_events_rds",
     "blocking_rds", "no_such_query"}

Selected(key) ==
    IF key \in RegisteredKeys
    THEN [kind |-> "Ok", key |-> key]
    ELSE [kind |-> "QueryError", key |-> key]

UnsupportedVersion(query_key) == [kind |-> "UnsupportedVersion", key |-> query_key]

\* A select_query_version that falls back to the oldest template below version 12.
select_query_version_legacy(query_key, version) ==
    CASE query_key = "slow_queries" ->
            Selected(IF version >= 13 THEN "slow_queries_v13+" ELSE "slow_queries_v12")
      [] query_key = "blocking" ->
            Selected(IF version >= 14 THEN "blocking_v14+" ELSE "blocking_v12_13")
      [] query_key = "individual" ->
            Selected(IF version >= 13 THEN "individual_v13+" ELSE "individual_v12")
      [] OTHER -> Selected(query_key)

\* QueryEngine::select_query_version
select_query_version(query_key, version) ==
    CASE query_key = "slow_queries" ->
            IF version >= 13 THEN Selected("slow_queries_v13+")
            ELSE IF version = 12 THEN Selected("slow_queries_v12")
            ELSE UnsupportedVersion(query_key)
      [] query_key = "blocking" ->
            IF version >= 14 THEN Selected("blocking_v14+")
            ELSE IF version = 12 \/ version = 13 THEN Selected("blocking_v12_13")
            ELSE UnsupportedVersion(query_key)
      [] query_key = "individual" ->
            IF version >= 13 THEN Selected("individual_v13+")
            ELSE IF version = 12 THEN Selected("individual_v12")
            ELSE UnsupportedVersion(query_key)
      [] OTHER -> Selected(query_key)

\* QueryParams::from_common_params: the database list quoted for an IN list, and the
\* limit of the query type.
from_common_params(params, query_type) ==
    LET databases == <<"'">> \o Replace(params.databases, ",", <<"'", ",", "'">>)
                         \o <<"'">>
    IN  CASE query_type = "slow_queries" ->
                [kind |-> "SlowQueries", databases |-> databases,
                 limit |-> params.query_monitoring_count_threshold]
          [] query_type = "wait_events" ->
                [kind |-> "WaitEvents", databases |-> databases, limit |-> 100]
          [] query_type = "blocking" ->
                [kind |-> "Blocking", databases |-> databases, limit |-> 100]
          [] query_type = "individual" ->
                [kind |-> "Individual", databases |-> databases, limit |-> 100]
          [] OTHER -> [kind |-> "None", databases |-> <<>>, limit |-> 0]

\* QueryEngine::format_query
format_query(query, params) ==
    IF params.kind = "None" THEN query
    ELSE Replace(Replace(query, "%s", params.databases), "%d", <<params.limit>>)

NoOut ==
    [executor |-> "none", query_key |-> "none", kind |-> "none", key |-> "none",
     sql |-> <<>>, binds |-> <<>>]

\* QueryEngine::execute_versioned, up to the statement handed to the driver
execute_versioned(query_key, version, params) ==
    LET query == select_query_version(query_key, version)
    IN  IF query.kind # "Ok"
        THEN [NoOut EXCEPT !.executor = "OHICompatibleQueryExecutor",
                           !.query_key = query_key, !.kind = query.kind,
                           !.key = query.key]
        ELSE [executor |-> "OHICompatibleQueryExecutor", query_key |-> query_key,
              kind |-> "Ok", key |-> query.key,
              sql |-> format_query(Template(query.key), params), binds |-> <<>>]

\* OHICompatibleQueryExecutor::execute_slow_queries, execute_wait_events,
\* execute_blocking_sessions, execute_individual_queries
OhiExecute(category, params) ==
    CASE category = "slow_queries" ->
            execute_versioned("slow_queries", params.version,
                              from_common_params(params, "slow_queries"))
      [] category = "wait_events" ->
            execute_versioned(IF params.is_rds THEN "wait_events_rds" ELSE "wait_events",
                              params.version, from_common_params(params, "wait_events"))
      [] category = "blocking_sessions" ->
            execute_versioned(IF params.is_rds THEN "blocking_rds" ELSE "blocking",
                              params.version, from_common_params(params, "blocking"))
      [] category = "individual_queries" ->
            execute_versioned("individual", params.version,
                              from_common_params(params, "individual"))

\* SafeQueryExecutor::execute_*: the literal query text of the branch taken, with
\* numbered placeholders, and the values bound to them.
SafeExecute(category, params, version, is_rds) ==
    LET c == [version |-> version, is_rds |-> is_rds]
        databases == Split(params.databases)
    IN  [executor |-> "SafeQueryExecutor", query_key |-> category, kind |-> "Ok",
         key |-> Dialect(category, c),
         sql |-> IF category = "slow_queries"
                 THEN <<category, Dialect(category, c), "ANY", "(", "$1", ")", "$2",
                        "$3", "LIMIT", "$4">>
                 ELSE <<category, Dialect(category, c), "ANY", "(", "$1", ")",
                        "LIMIT", 100>>,
         binds |-> IF category = "slow_queries"
                   THEN <<databases, params.query_monitoring_count_threshold,
                          params.query_monitoring_response_time_threshold,
                          params.query_monitoring_count_threshold>>
                   ELSE <<databases>>]

DispatchInputs ==
    [category : Categories, version : DispatchVersions, is_rds : BOOLEAN,
     databases : DatabaseLists, count_threshold : CountThresholds]

NoInput ==
    [category |-> "none", version |-> 0, is_rds |-> FALSE, databases |-> <<>>,
     count_threshold |-> 0]

\* A caller asks the QueryEngine for the template of a query key.
SelectQueryVersion ==
    /\ \E query_key \in QueryKeys :
          LET query == select_query_version(query_key, d_in.version)
          IN  d_out' = [NoOut EXCEPT !.executor = "select_query_version",
                                     !.query_key = query_key, !.kind = query.kind,
                                     !.key = query.key]
    /\ UNCHANGED d_in

\* A category is dispatched through OHICompatibleQueryExecutor.
DispatchOhi ==
    /\ d_out' = OhiExecute(d_in.category, CommonParams(d_in))
    /\ UNCHANGED d_in

\* A category is dispatched through SafeQueryExecutor, as collect_all_metrics does.
DispatchSafe ==
    /\ d_out' = SafeExecute(d_in.category, CommonParams(d_in), d_in.version, d_in.is_rds)
    /\ UNCHANGED d_in

(***************************************************************************)
(* Slow-query text: anonymize_query_text, post_process_slow_queries,       *)
(* QuerySanitizer                                                          *)
(***************************************************************************)
\* A text is a sequence of tokens, separated by single spaces.
StringLiterals == {"'x'"}
NumberLiterals == {"42"}
QuotedIdentifiers == {"\"t\""}
AlterTokens == {"alter", "ALTER", "alternate"}
Tokens ==
    {"select", "where"} \cup AlterTokens \cup StringLiterals \cup NumberLiterals
        \cup QuotedIdentifiers

Texts == UNION {[1..n -> Tokens] : n \in 1..MaxTextLen}

\* text.to_lowercase().contains("alter")
ContainsAlter(text) == \E i \in 1..Len(text) : text[i] \in AlterTokens

\* anonymize_query_text: Regex '[^']*'|\d+|".*?" replaced by ?
anonymize_query_text(text) ==
    [i \in 1..Len(text) |->
        IF text[i] \in StringLiterals \cup NumberLiterals \cup QuotedIdentifiers
        THEN "?" ELSE text[i]]

\* OHICompatibleQueryExecutor::post_process_slow_queries, for one record
post_process_slow_queries(text) ==
    IF ContainsAlter(text) THEN anonymize_query_text(text) ELSE text

\* QuerySanitizer::full_sanitize: string literals become '?', numbers become ?
full_sanitize(text) ==
    [i \in 1..Len(text) |->
        IF text[i] \in StringLiterals THEN "'?'"
        ELSE IF text[i] \in NumberLiterals THEN "?" ELSE text[i]]

\* QuerySanitizer::sanitize_sensitive_clauses: the string literals after the first
\* " where " become '?'. The tokens hold none of the keywords that end the clause.
sanitize_sensitive_clauses(text) ==
    LET wheres == {i \in 2..(Len(text) - 1) : text[i] = "where"}
    IN  IF wheres = {} THEN text
        ELSE LET where_pos == CHOOSE i \in wheres : \A j \in wheres : i <= j
             IN  [i \in 1..Len(text) |->
                     IF i > where_pos /\ text[i] \in StringLiterals
                     THEN "'?'" ELSE text[i]]

\* QuerySanitizer::smart_sanitize; the tokens hold no e-mail address, phone number,
\* SSN, card number or PII column, so only the clause step changes anything.
smart_sanitize(text) == sanitize_sensitive_clauses(text)

\* QuerySanitizer::sanitize
sanitize(mode, text) ==
    CASE mode = "None" -> text
      [] mode = "Full" -> full_sanitize(text)
      [] mode = "Smart" -> smart_sanitize(text)

\* self.query_sanitizer as UnifiedCollectionEngine::new builds it: None unless
\* sanitize_query_text is set, else a sanitizer of the configured mode.
QuerySanitizers ==
    {[some |-> FALSE, mode |-> "None"]} \cup [some : {TRUE}, mode : {"Full", "Smart", "None"}]

\* The slow-query text collect_all_metrics retains: the dispatcher's, sanitized if a
\* sanitizer is configured.
RetainedSlowQueryText(sanitizer, text) ==
    IF sanitizer.some THEN sanitize(sanitizer.mode, text) ELSE text

NoText == [text |-> <<>>, sanitizer |-> [some |-> FALSE, mode |-> "None"]]
NoRetained == [path |-> "none", fetched |-> <<>>, text |-> <<>>]

TextIdle ==
    /\ tx_in = NoText
    /\ tx_out = NoRetained

TextInit ==
    /\ tx_in \in [text : Texts, sanitizer : QuerySanitizers]
    /\ tx_out = NoRetained

\* OHICompatibleQueryExecutor::execute_slow_queries: the query, then
\* post_process_slow_queries.
OhiSlowQueries ==
    /\ tx_out' = [path |-> "OHICompatibleQueryExecutor", fetched |-> tx_in.text,
                  text |-> post_process_slow_queries(tx_in.text)]
    /\ UNCHANGED tx_in

\* collect_all_metrics: SafeQueryExecutor::execute_slow_queries, then the sanitizer
\* loop, then metrics.slow_queries = slow_queries.
CycleSlowQueries ==
    /\ tx_out' = [path |-> "collect_all_metrics", fetched |-> tx_in.text,
                  text |-> RetainedSlowQueryText(tx_in.sanitizer, tx_in.text)]
    /\ UNCHANGED tx_in

(***************************************************************************)
(* CommonParameters: threshold validation                                  *)
(***************************************************************************)
MinI32 == -2147483647 - 1
MaxI32 == 2147483647
DEFAULT_COUNT == 20
MAX_COUNT == 30

\* The values an i32 configuration field is tried with.
ThresholdInputs == {MinI32, MaxI32} \cup (-MaxThreshold..MaxThreshold)

\* A validate_count_threshold without the upper limit.
validate_count_threshold_no_max(input) ==
    IF input < 0 THEN DEFAULT_COUNT ELSE input

\* CommonParameters::validate_count_threshold
validate_count_threshold(input) ==
    IF input < 0 THEN DEFAULT_COUNT
    ELSE IF input > MAX_COUNT THEN MAX_COUNT
    ELSE input

\* A validate_response_threshold that lets a negative value through.
validate_response_threshold_unchecked(input) == input

\* CommonParameters::validate_response_threshold
validate_response_threshold(input) ==
    IF input < 0 THEN DefaultResponseThreshold ELSE input

NoThresholds == [count |-> 0, response |-> 0]
NoValidated == [fn |-> "none", count |-> 0, response |-> 0]

ThresholdInit ==
    /\ th_in \in [count : ThresholdInputs, response : ThresholdInputs]
    /\ th_out = NoValidated

ValidateCountThreshold ==
    /\ th_out' = [NoValidated EXCEPT !.fn = "validate_count_threshold",
                                     !.count = validate_count_threshold(th_in.count)]
    /\ UNCHANGED th_in

ValidateResponseThreshold ==
    /\ th_out' = [NoValidated EXCEPT
                      !.fn = "validate_response_threshold",
                      !.response = validate_response_threshold(th_in.response)]
    /\ UNCHANGED th_in

\* collect_all_metrics builds the CommonParameters of a cycle from the configuration.
BuildCommonParameters ==
    /\ th_out' = [fn |-> "CommonParameters",
                  count |-> validate_count_threshold(th_in.count),
                  response |-> validate_response_threshold(th_in.response)]
    /\ UNCHANGED th_in

\* Nothing is dispatched or validated.
QueryIdle ==
    /\ d_in = NoInput
    /\ d_out = NoOut
    /\ th_in = NoThresholds
    /\ th_out = NoValidated
    /\ TextIdle

QueryInit ==
    /\ d_in \in DispatchInputs
    /\ d_out = NoOut
    /\ th_in = NoThresholds
    /\ th_out = NoValidated
    /\ TextIdle

(***************************************************************************)
(* MultiInstanceManager                                                    *)
(***************************************************************************)
InstanceNames == 1..NumInstances

\* Option<UnifiedMetrics>::None
NoMetrics == [none |-> TRUE]

\* The snapshot the engine of instance `name` returns in collect_all call `r`.
Snapshot(name, r) == [instance |-> name, round |-> r]

\* The state after new() and initialize(): every configured instance registered,
\* each with metrics: None.
ManagerInit ==
    /\ instances = InstanceNames
    /\ store = [n \in InstanceNames |-> NoMetrics]
    /\ m_pc = "idle"
    /\ round = 0
    /\ task = [n \in InstanceNames |-> "none"]
    /\ combined = <<>>
    /\ m_ret = "none"
    /\ completed = 0
    /\ last_failed = {}
    /\ s_pc = "idle"
    /\ s_todo = {}
    /\ s_errors = {}
    /\ s_ret = "none"
    /\ s_since = [completed |-> 0, failed |-> {}]
    /\ exported = {}
    /\ s_cur = 0
    /\ map_readers = {}
    /\ metrics_guard = [n \in InstanceNames |-> "free"]

sendVars == <<s_pc, s_todo, s_errors, s_ret, s_since, exported, s_cur>>

\* collect_all: the read guard of the instance map, granted when no writer is queued
\* for it, one future per registered instance, then join_all.
collect_all_begin ==
    /\ m_pc = "idle"
    /\ r_pc # "waiting"
    /\ round < MaxRounds
    /\ map_readers' = map_readers \cup {"collect_all"}
    /\ round' = round + 1
    /\ m_pc' = "joining"
    /\ task' = [n \in InstanceNames |-> IF n \in instances THEN "running" ELSE "none"]
    /\ combined' = <<>>
    /\ m_ret' = "none"
    /\ UNCHANGED <<instances, store, completed, last_failed, sendVars, metrics_guard>>

\* engine.collect_all_metrics().await returned Ok(metrics)
future_engine_ok(n) ==
    /\ m_pc = "joining"
    /\ task[n] = "running"
    /\ task' = [task EXCEPT ![n] = "storing"]
    /\ UNCHANGED <<instances, store, m_pc, round, combined, m_ret, completed,
                   last_failed, sendVars, map_readers, metrics_guard>>

\* *metrics_store.write().await = Some(metrics.clone()); Ok((name, metrics)).
\* The write guard is granted when no read guard is out, and dropped at the end of
\* the statement.
future_store(n) ==
    /\ m_pc = "joining"
    /\ task[n] = "storing"
    /\ metrics_guard[n] = "free"
    /\ store' = [store EXCEPT ![n] = Snapshot(n, round)]
    /\ task' = [task EXCEPT ![n] = "Ok"]
    /\ UNCHANGED <<instances, m_pc, round, combined, m_ret, completed,
                   last_failed, sendVars, map_readers, metrics_guard>>

\* engine.collect_all_metrics().await returned Err(e): Err((name, e))
future_engine_err(n) ==
    /\ m_pc = "joining"
    /\ task[n] = "running"
    /\ task' = [task EXCEPT ![n] = "Err"]
    /\ UNCHANGED <<instances, store, m_pc, round, combined, m_ret, completed,
                   last_failed, sendVars, map_readers, metrics_guard>>

\* A result loop that gives a failed instance a key too, holding whatever its
\* metrics store holds.
ProcessResults_keeps_failed ==
    [n \in instances |-> IF task[n] = "Ok" THEN Snapshot(n, round) ELSE store[n]]

\* The loop over the joined results: which instances get a key, and its value.
ProcessResults ==
    [n \in {k \in instances : task[k] = "Ok"} |-> Snapshot(n, round)]

\* join_all has returned; the results are processed and Ok(combined) is returned,
\* which drops the read guard of the instance map.
collect_all_return ==
    /\ m_pc = "joining"
    /\ \A n \in instances : task[n] \in {"Ok", "Err"}
    /\ combined' = ProcessResults
    /\ m_ret' = "Ok"
    /\ m_pc' = "idle"
    /\ completed' = completed + 1
    /\ last_failed' = {n \in instances : task[n] = "Err"}
    /\ map_readers' = map_readers \ {"collect_all"}
    /\ UNCHANGED <<instances, store, round, task, sendVars, metrics_guard>>

\* send_all_metrics: takes the read guard of the instance map, which is granted when
\* no writer is queued for it, and starts the loop.
send_all_metrics_begin ==
    /\ s_pc = "idle"
    /\ r_pc # "waiting"
    /\ s_pc' = "sending"
    /\ s_todo' = instances
    /\ s_errors' = {}
    /\ s_ret' = "none"
    /\ exported' = {}
    /\ s_cur' = 0
    /\ s_since' = [completed |-> completed, failed |-> last_failed]
    /\ map_readers' = map_readers \cup {"send_all_metrics"}
    /\ UNCHANGED <<instances, store, m_pc, round, task, combined, m_ret,
                   completed, last_failed, metrics_guard>>

\* One iteration of the loop, up to the call of engine.send_metrics: the read guard
\* of collector.metrics is taken in the scrutinee of the `if let`; a stored snapshot
\* is handed to send_metrics with the guard still out, an instance without one is
\* passed over and the guard dropped.
send_one(n) ==
    /\ s_pc = "sending"
    /\ s_cur = 0
    /\ n \in s_todo
    /\ s_todo' = s_todo \ {n}
    /\ IF store[n] # NoMetrics
       THEN /\ exported' = exported \cup {[name |-> n, metrics |-> store[n]]}
            /\ s_cur' = n
            /\ metrics_guard' = [metrics_guard EXCEPT ![n] = "read"]
       ELSE UNCHANGED <<exported, s_cur, metrics_guard>>
    /\ UNCHANGED <<instances, store, m_pc, round, task, combined, m_ret,
                   completed, last_failed, s_pc, s_errors, s_ret, s_since, map_readers>>

\* A send that takes the read guard of the instance map again when the export
\* returns, behind any writer queued for it.
send_metrics_returns_rereads_map(n) ==
    /\ s_pc = "sending"
    /\ s_cur = n
    /\ r_pc # "waiting"
    /\ s_cur' = 0
    /\ metrics_guard' = [metrics_guard EXCEPT ![n] = "free"]
    /\ \/ UNCHANGED s_errors
       \/ s_errors' = s_errors \cup {n}
    /\ UNCHANGED <<instances, store, m_pc, round, task, combined, m_ret,
                   completed, last_failed, s_pc, s_todo, s_ret, s_since, exported,
                   map_readers>>

\* engine.send_metrics(metrics).await returns, Ok or Err; the `if let` ends and the
\* read guard of collector.metrics is dropped.
send_metrics_returns(n) ==
    /\ s_pc = "sending"
    /\ s_cur = n
    /\ s_cur' = 0
    /\ metrics_guard' = [metrics_guard EXCEPT ![n] = "free"]
    /\ \/ UNCHANGED s_errors
       \/ s_errors' = s_errors \cup {n}
    /\ UNCHANGED <<instances, store, m_pc, round, task, combined, m_ret,
                   completed, last_failed, s_pc, s_todo, s_ret, s_since, exported,
                   map_readers>>

\* A send_all_metrics that returns the error of the first failed send.
send_all_metrics_return_at_first_error ==
    /\ s_pc = "sending"
    /\ s_cur = 0
    /\ s_todo = {} \/ s_errors # {}
    /\ s_ret' = IF s_errors # {} THEN "Err" ELSE "Ok"
    /\ s_pc' = "idle"
    /\ map_readers' = map_readers \ {"send_all_metrics"}
    /\ UNCHANGED <<instances, store, m_pc, round, task, combined, m_ret,
                   completed, last_failed, s_todo, s_errors, s_since, exported, s_cur,
                   metrics_guard>>

\* The loop is over: Err when `errors` is not empty, Ok(()) otherwise; the read guard
\* of the instance map is dropped.
send_all_metrics_return ==
    /\ s_pc = "sending"
    /\ s_cur = 0
    /\ s_todo = {}
    /\ s_ret' = IF s_errors # {} THEN "Err" ELSE "Ok"
    /\ s_pc' = "idle"
    /\ map_readers' = map_readers \ {"send_all_metrics"}
    /\ UNCHANGED <<instances, store, m_pc, round, task, combined, m_ret,
                   completed, last_failed, s_todo, s_errors, s_since, exported, s_cur,
                   metrics_guard>>

(***************************************************************************)
(* MultiInstanceManager: get_instance_metrics, health_check, remove_instance*)
(* The locks are tokio RwLocks: a read guard is granted unless a writer      *)
(* holds the lock or is queued for it, a write guard when nobody holds it.   *)
(***************************************************************************)
\* A write of collector.metrics of instance n is queued behind a read guard.
MetricsWriterQueued(n) == task[n] = "storing" /\ metrics_guard[n] # "free"

\* No call of the three is in progress.
CallsIdle ==
    /\ g_pc = "idle"
    /\ g_name = 0
    /\ h_pc = "idle"
    /\ h_todo = {}
    /\ health = <<>>
    /\ r_pc = "idle"
    /\ r_name = 0

\* get_instance_metrics(name): self.instances.read().await
get_instance_metrics_begin(name) ==
    /\ g_pc = "idle"
    /\ r_pc # "waiting"
    /\ g_pc' = "map"
    /\ g_name' = name
    /\ map_readers' = map_readers \cup {"get_instance_metrics"}
    /\ UNCHANGED <<instances, store, m_pc, round, task, combined, m_ret, completed,
                   last_failed, sendVars, metrics_guard, h_pc, h_todo, health, r_pc,
                   r_name>>

\* instances.get(name): collector.metrics.read().await.clone() for a registered
\* name, None otherwise; the value goes to the caller and both guards are dropped.
get_instance_metrics_return ==
    /\ g_pc = "map"
    /\ g_name \in instances => ~MetricsWriterQueued(g_name)
    /\ g_pc' = "idle"
    /\ g_name' = 0
    /\ map_readers' = map_readers \ {"get_instance_metrics"}
    /\ UNCHANGED <<instances, store, m_pc, round, task, combined, m_ret, completed,
                   last_failed, sendVars, metrics_guard, h_pc, h_todo, health,
                   r_pc, r_name>>

\* health_check: self.instances.read().await
health_check_begin ==
    /\ h_pc = "idle"
    /\ r_pc # "waiting"
    /\ h_pc' = "loop"
    /\ h_todo' = instances
    /\ health' = <<>>
    /\ map_readers' = map_readers \cup {"health_check"}
    /\ UNCHANGED <<instances, store, m_pc, round, task, combined, m_ret, completed,
                   last_failed, sendVars, metrics_guard, g_pc, g_name, r_pc,
                   r_name>>

\* One iteration: collector.metrics.read().await.is_some(), the guard a temporary of
\* the statement.
health_check_one(n) ==
    /\ h_pc = "loop"
    /\ n \in h_todo
    /\ ~MetricsWriterQueued(n)
    /\ h_todo' = h_todo \ {n}
    /\ health' = (n :> (store[n] # NoMetrics)) @@ health
    /\ UNCHANGED <<instances, store, m_pc, round, task, combined, m_ret, completed,
                   last_failed, sendVars, metrics_guard, map_readers, g_pc, g_name,
                   h_pc, r_pc, r_name>>

\* The loop is over: the map is moved out to the caller and the read guard dropped.
health_check_return ==
    /\ h_pc = "loop"
    /\ h_todo = {}
    /\ h_pc' = "idle"
    /\ health' = <<>>
    /\ map_readers' = map_readers \ {"health_check"}
    /\ UNCHANGED <<instances, store, m_pc, round, task, combined, m_ret, completed,
                   last_failed, sendVars, metrics_guard, g_pc, g_name, h_todo,
                   r_pc, r_name>>

\* remove_instance(name): self.instances.write().await is requested.
remove_instance_begin(name) ==
    /\ r_pc = "idle"
    /\ r_pc' = "waiting"
    /\ r_name' = name
    /\ UNCHANGED <<managerVars, g_pc, g_name, h_pc, h_todo, health>>

\* The write guard is granted when no read guard is out: instances.remove(name),
\* Ok to the caller for a registered name and Err otherwise, and the guard is
\* dropped.
remove_instance_return ==
    /\ r_pc = "waiting"
    /\ map_readers = {}
    /\ instances' = instances \ {r_name}
    /\ r_pc' = "idle"
    /\ r_name' = 0
    /\ UNCHANGED <<store, m_pc, round, task, combined, m_ret, completed, last_failed,
                   sendVars, map_readers, metrics_guard, g_pc, g_name, h_pc,
                   h_todo, health>>

(***************************************************************************)
(* The collection loop of the binary and the health server                 *)
(***************************************************************************)
OK == 200
SERVICE_UNAVAILABLE == 503

\* HealthStatus::default()
DefaultHealthStatus ==
    [is_healthy |-> TRUE, last_collection_time |-> None,
     last_collection_error |-> FALSE, metrics_sent |-> 0, metrics_failed |-> 0]

NoResponse == [path |-> "", status |-> 0]

ReadyFields ==
    /\ health_status = DefaultHealthStatus
    /\ u_pc = "tick"
    /\ u_succeeded = 0
    /\ u_failed = 0
    /\ u_last = "none"
    /\ http = NoResponse

ReadyIdle == ReadyFields /\ dry_run = FALSE

ReadyInit == ReadyFields /\ dry_run \in BOOLEAN

\* readiness_check answering whenever a collection has ever succeeded.
readiness_any_success(status) ==
    IF status.last_collection_time.some THEN OK ELSE SERVICE_UNAVAILABLE

\* readiness_check: the status code for a HealthStatus.
readiness(status) ==
    IF status.last_collection_time.some /\ status.is_healthy
    THEN OK ELSE SERVICE_UNAVAILABLE

\* health_check: the status code for a HealthStatus.
healthiness(status) ==
    IF status.is_healthy THEN OK ELSE SERVICE_UNAVAILABLE

\* GET /ready
readiness_check ==
    /\ http' = [path |-> "/ready", status |-> readiness(health_status)]
    /\ UNCHANGED <<health_status, dry_run, u_pc, u_succeeded, u_failed, u_last>>

\* GET /health
health_endpoint ==
    /\ http' = [path |-> "/health", status |-> healthiness(health_status)]
    /\ UNCHANGED <<health_status, dry_run, u_pc, u_succeeded, u_failed, u_last>>

\* interval.tick(); collect_all_metrics returned Ok: the status is updated, and
\* unless this is a dry run send_metrics is called.
collection_ok ==
    /\ u_pc = "tick"
    /\ u_succeeded + u_failed < MaxAttempts
    /\ health_status' = [health_status EXCEPT
                            !.last_collection_time = Some(u_succeeded + u_failed + 1),
                            !.is_healthy = TRUE,
                            !.last_collection_error = FALSE]
    /\ u_succeeded' = u_succeeded + 1
    /\ u_last' = "Ok"
    /\ u_pc' = IF dry_run THEN "tick" ELSE "send"
    /\ UNCHANGED <<dry_run, u_failed, http>>

\* interval.tick(); collect_all_metrics returned Err.
collection_err ==
    /\ u_pc = "tick"
    /\ u_succeeded + u_failed < MaxAttempts
    /\ health_status' = [health_status EXCEPT
                            !.is_healthy = FALSE,
                            !.last_collection_error = TRUE]
    /\ u_failed' = u_failed + 1
    /\ u_last' = "Err"
    /\ UNCHANGED <<dry_run, u_pc, u_succeeded, http>>

\* engine.send_metrics returned Ok
send_ok ==
    /\ u_pc = "send"
    /\ health_status' = [health_status EXCEPT !.metrics_sent = @ + 1]
    /\ u_pc' = "tick"
    /\ UNCHANGED <<dry_run, u_succeeded, u_failed, u_last, http>>

\* engine.send_metrics returned Err
send_err ==
    /\ u_pc = "send"
    /\ health_status' = [health_status EXCEPT !.metrics_failed = @ + 1]
    /\ u_pc' = "tick"
    /\ UNCHANGED <<dry_run, u_succeeded, u_failed, u_last, http>>

(***************************************************************************)
(* CircuitBreaker                                                          *)
(***************************************************************************)
\* CircuitBreaker::new(threshold, reset_timeout)
NewBreaker(threshold, reset_timeout) ==
    [failure_count |-> 0, threshold |-> threshold, is_open |-> FALSE,
     last_failure |-> None, reset_timeout |-> reset_timeout]

NoCall == [op |-> "none", open |-> FALSE, at |-> 0]

BreakerFields(cb) ==
    /\ breaker = cb
    /\ b_now = 0
    /\ b_since = 0
    /\ b_ret = NoCall

BreakerIdle == BreakerFields(NewBreaker(1, 1))

BreakerInit ==
    \E threshold \in 1..MaxBreakerThreshold, reset_timeout \in 1..MaxResetTimeout :
        BreakerFields(NewBreaker(threshold, reset_timeout))

\* An is_open that returns the flag whatever the time of the last failure.
is_open_flag(cb, t) == cb.is_open

\* is_open at instant t: the flag, unless it is set and the last failure is older
\* than reset_timeout.
is_open(cb, t) ==
    IF cb.is_open /\ cb.last_failure.some /\ t - cb.last_failure.v > cb.reset_timeout
    THEN FALSE
    ELSE cb.is_open

IsOpen ==
    /\ b_ret' = [op |-> "is_open", open |-> is_open(breaker, b_now), at |-> b_now]
    /\ UNCHANGED <<breaker, b_now, b_since>>

record_success ==
    /\ breaker' = [breaker EXCEPT !.failure_count = 0, !.is_open = FALSE,
                                  !.last_failure = None]
    /\ b_since' = 0
    /\ b_ret' = [op |-> "record_success", open |-> FALSE, at |-> b_now]
    /\ UNCHANGED b_now

record_failure ==
    /\ b_since < MaxFailures
    /\ breaker' = [breaker EXCEPT
                      !.failure_count = @ + 1,
                      !.last_failure = Some(b_now),
                      !.is_open = IF breaker.failure_count + 1 >= breaker.threshold
                                  THEN TRUE ELSE @]
    /\ b_since' = b_since + 1
    /\ b_ret' = [op |-> "record_failure", open |-> FALSE, at |-> b_now]
    /\ UNCHANGED b_now

\* Time passes.
BreakerClock ==
    /\ b_now < MaxClock
    /\ b_now' = b_now + 1
    /\ UNCHANGED <<breaker, b_since, b_ret>>

(***************************************************************************)
(* CardinalityTracker                                                      *)
(***************************************************************************)
Fingerprints == 1..NumFingerprints
Tasks == 1..NumTasks

NoAnswer == [fingerprint |-> 0, track |-> FALSE]

\* CardinalityTracker::new(limits)
TrackerFields(max) ==
    /\ query_fingerprints = {}
    /\ limits = [max_query_fingerprints |-> max]
    /\ c_mutex = 0
    /\ c_arg = [t \in Tasks |-> 0]
    /\ c_granted = {}
    /\ c_denied = {}
    /\ c_late = {}
    /\ c_ret = NoAnswer

TrackerIdle == TrackerFields(0)

TrackerInit == \E max \in 0..MaxFingerprintLimit : TrackerFields(max)

\* A should_track_query that admits a new fingerprint while the set is at its limit.
should_track_query_at_limit(fingerprints, fingerprint) ==
    IF fingerprint \in fingerprints
    THEN [set |-> fingerprints, track |-> TRUE]
    ELSE IF Cardinality(fingerprints) <= limits.max_query_fingerprints
         THEN [set |-> fingerprints \cup {fingerprint}, track |-> TRUE]
         ELSE [set |-> fingerprints, track |-> FALSE]

\* The body of should_track_query under the lock: the set afterwards and the answer.
should_track_query(fingerprints, fingerprint) ==
    IF fingerprint \in fingerprints
    THEN [set |-> fingerprints, track |-> TRUE]
    ELSE IF Cardinality(fingerprints) < limits.max_query_fingerprints
         THEN [set |-> fingerprints \cup {fingerprint}, track |-> TRUE]
         ELSE [set |-> fingerprints, track |-> FALSE]

\* Task t calls should_track_query(fingerprint): self.query_fingerprints.lock()
track_lock(t, fingerprint) ==
    /\ c_arg[t] = 0
    /\ c_mutex = 0
    /\ c_mutex' = t
    /\ c_arg' = [c_arg EXCEPT ![t] = fingerprint]
    /\ UNCHANGED <<query_fingerprints, limits, c_granted, c_denied, c_late, c_ret>>

\* The body runs with the guard held; the guard is dropped on return.
track_return(t) ==
    /\ c_mutex = t
    /\ LET fingerprint == c_arg[t]
           out == should_track_query(query_fingerprints, fingerprint)
       IN  /\ query_fingerprints' = out.set
           /\ c_ret' = [fingerprint |-> fingerprint, track |-> out.track]
           /\ c_granted' = IF out.track THEN c_granted \cup {fingerprint} ELSE c_granted
           /\ c_denied' = IF out.track THEN c_denied ELSE c_denied \cup {fingerprint}
           /\ c_late' = IF /\ fingerprint \notin c_granted \cup c_denied
                           /\ Cardinality(query_fingerprints) >=
                                  limits.max_query_fingerprints
                        THEN c_late \cup {fingerprint} ELSE c_late
    /\ c_mutex' = 0
    /\ c_arg' = [c_arg EXCEPT ![t] = 0]
    /\ UNCHANGED limits

\* The components outside the collector engine, before any of them is used.
AuxIdle ==
    /\ MvpIdle
    /\ CallsIdle
    /\ ReadyIdle
    /\ BreakerIdle
    /\ TrackerIdle

\* The state after construction of every component.
Init ==
    /\ EngineInit
    /\ ManagerInit
    /\ SamplerIdle
    /\ PlanIdle
    /\ EligIdle
    /\ QueryIdle
    /\ AuxIdle

ManagerNext ==
    \/ collect_all_begin /\ UNCHANGED <<engineVars, samplerVars, planVars, eligVars, queryVars, auxVars>>
    \/ \E n \in InstanceNames : future_engine_ok(n) /\ UNCHANGED <<engineVars, samplerVars, planVars, eligVars, queryVars, auxVars>>
    \/ \E n \in InstanceNames : future_store(n) /\ UNCHANGED <<engineVars, samplerVars, planVars, eligVars, queryVars, auxVars>>
    \/ \E n \in InstanceNames : future_engine_err(n) /\ UNCHANGED <<engineVars, samplerVars, planVars, eligVars, queryVars, auxVars>>
    \/ collect_all_return /\ UNCHANGED <<engineVars, samplerVars, planVars, eligVars, queryVars, auxVars>>
    \/ send_all_metrics_begin /\ UNCHANGED <<engineVars, samplerVars, planVars, eligVars, queryVars, auxVars>>
    \/ \E n \in InstanceNames : send_one(n) /\ UNCHANGED <<engineVars, samplerVars, planVars, eligVars, queryVars, auxVars>>
    \/ \E n \in InstanceNames : send_metrics_returns(n) /\ UNCHANGED <<engineVars, samplerVars, planVars, eligVars, queryVars, auxVars>>
    \/ send_all_metrics_return /\ UNCHANGED <<engineVars, samplerVars, planVars, eligVars, queryVars, auxVars>>

SpecManager == Init /\ [][ManagerNext]_vars

\* Every call of the manager, concurrently.
CallsNext ==
    \/ ManagerNext
    \/ \E name \in InstanceNames : get_instance_metrics_begin(name) /\ UNCHANGED <<engineVars, samplerVars, planVars, eligVars, queryVars, mvpVars, readyVars, breakerVars, trackerVars>>
    \/ get_instance_metrics_return /\ UNCHANGED <<engineVars, samplerVars, planVars, eligVars, queryVars, mvpVars, readyVars, breakerVars, trackerVars>>
    \/ health_check_begin /\ UNCHANGED <<engineVars, samplerVars, planVars, eligVars, queryVars, mvpVars, readyVars, breakerVars, trackerVars>>
    \/ \E n \in InstanceNames : health_check_one(n) /\ UNCHANGED <<engineVars, samplerVars, planVars, eligVars, queryVars, mvpVars, readyVars, breakerVars, trackerVars>>
    \/ health_check_return /\ UNCHANGED <<engineVars, samplerVars, planVars, eligVars, queryVars, mvpVars, readyVars, breakerVars, trackerVars>>
    \/ \E name \in InstanceNames : remove_instance_begin(name) /\ UNCHANGED <<engineVars, samplerVars, planVars, eligVars, queryVars, mvpVars, readyVars, breakerVars, trackerVars>>
    \/ remove_instance_return /\ UNCHANGED <<engineVars, samplerVars, planVars, eligVars, queryVars, mvpVars, readyVars, breakerVars, trackerVars>>

\* A manager all of whose collect_all calls but the last have been made and have
\* returned, every engine having succeeded in them: each instance holds the snapshot
\* of the latest call.
ManagerAfterRounds ==
    /\ instances = InstanceNames
    /\ store = [n \in InstanceNames |->
                  IF MaxRounds > 1 THEN Snapshot(n, MaxRounds - 1) ELSE NoMetrics]
    /\ m_pc = "idle"
    /\ round = MaxRounds - 1
    /\ task = [n \in InstanceNames |-> IF MaxRounds > 1 THEN "Ok" ELSE "none"]
    /\ combined = IF MaxRounds > 1
                  THEN [n \in InstanceNames |-> Snapshot(n, MaxRounds - 1)] ELSE <<>>
    /\ m_ret = IF MaxRounds > 1 THEN "Ok" ELSE "none"
    /\ completed = MaxRounds - 1
    /\ last_failed = {}
    /\ s_pc = "idle"
    /\ s_todo = {}
    /\ s_errors = {}
    /\ s_ret = "none"
    /\ s_since = [completed |-> 0, failed |-> {}]
    /\ exported = {}
    /\ s_cur = 0
    /\ map_readers = {}
    /\ metrics_guard = [n \in InstanceNames |-> "free"]

InitCalls ==
    /\ EngineInit
    /\ ManagerAfterRounds
    /\ SamplerIdle
    /\ PlanIdle
    /\ EligIdle
    /\ QueryIdle
    /\ AuxIdle

SpecCalls == InitCalls /\ [][CallsNext]_vars

\* The binary's loop and the requests of the health server.
InitReady ==
    /\ EngineInit
    /\ ManagerInit
    /\ SamplerIdle
    /\ PlanIdle
    /\ EligIdle
    /\ QueryIdle
    /\ MvpIdle
    /\ CallsIdle
    /\ ReadyInit
    /\ BreakerIdle
    /\ TrackerIdle

ReadyNext ==
    \/ collection_ok /\ UNCHANGED <<engineVars, managerVars, samplerVars, planVars, eligVars, queryVars, mvpVars, callVars, breakerVars, trackerVars>>
    \/ collection_err /\ UNCHANGED <<engineVars, managerVars, samplerVars, planVars, eligVars, queryVars, mvpVars, callVars, breakerVars, trackerVars>>
    \/ send_ok /\ UNCHANGED <<engineVars, managerVars, samplerVars, planVars, eligVars, queryVars, mvpVars, callVars, breakerVars, trackerVars>>
    \/ send_err /\ UNCHANGED <<engineVars, managerVars, samplerVars, planVars, eligVars, queryVars, mvpVars, callVars, breakerVars, trackerVars>>
    \/ readiness_check /\ UNCHANGED <<engineVars, managerVars, samplerVars, planVars, eligVars, queryVars, mvpVars, callVars, breakerVars, trackerVars>>
    \/ health_endpoint /\ UNCHANGED <<engineVars, managerVars, samplerVars, planVars, eligVars, queryVars, mvpVars, callVars, breakerVars, trackerVars>>

SpecReady == InitReady /\ [][ReadyNext]_vars

\* Circuit breakers of small thresholds and timeouts under every sequence of calls.
InitBreaker ==
    /\ EngineInit
    /\ ManagerInit
    /\ SamplerIdle
    /\ PlanIdle
    /\ EligIdle
    /\ QueryIdle
    /\ MvpIdle
    /\ CallsIdle
    /\ ReadyIdle
    /\ BreakerInit
    /\ TrackerIdle

BreakerNext ==
    \/ IsOpen /\ UNCHANGED <<engineVars, managerVars, samplerVars, planVars, eligVars, queryVars, mvpVars, callVars, readyVars, trackerVars>>
    \/ record_success /\ UNCHANGED <<engineVars, managerVars, samplerVars, planVars, eligVars, queryVars, mvpVars, callVars, readyVars, trackerVars>>
    \/ record_failure /\ UNCHANGED <<engineVars, managerVars, samplerVars, planVars, eligVars, queryVars, mvpVars, callVars, readyVars, trackerVars>>
    \/ BreakerClock /\ UNCHANGED <<engineVars, managerVars, samplerVars, planVars, eligVars, queryVars, mvpVars, callVars, readyVars, trackerVars>>

SpecBreaker == InitBreaker /\ [][BreakerNext]_vars

\* Tasks calling should_track_query on one tracker.
InitTracker ==
    /\ EngineInit
    /\ ManagerInit
    /\ SamplerIdle
    /\ PlanIdle
    /\ EligIdle
    /\ QueryIdle
    /\ MvpIdle
    /\ CallsIdle
    /\ ReadyIdle
    /\ BreakerIdle
    /\ TrackerInit

TrackerNext ==
    \/ \E t \in Tasks, fingerprint \in Fingerprints : track_lock(t, fingerprint) /\ UNCHANGED <<engineVars, managerVars, samplerVars, planVars, eligVars, queryVars, mvpVars, callVars, readyVars, breakerVars>>
    \/ \E t \in Tasks : track_return(t) /\ UNCHANGED <<engineVars, managerVars, samplerVars, planVars, eligVars, queryVars, mvpVars, callVars, readyVars, breakerVars>>

SpecTracker == InitTracker /\ [][TrackerNext]_vars

\* Samplers with small buffers.
InitSampler ==
    /\ EngineInit
    /\ ManagerInit
    /\ SamplerInit
    /\ PlanIdle
    /\ EligIdle
    /\ QueryIdle
    /\ AuxIdle

SpecSampler == InitSampler /\ [][SamplerNext]_vars

\* Samplers with buffers of megabytes.
InitSamplerMem ==
    /\ EngineInit
    /\ ManagerInit
    /\ SamplerMemInit
    /\ PlanIdle
    /\ EligIdle
    /\ QueryIdle
    /\ AuxIdle

\* The sampling task and clear_samples, without readers.
SamplerMemNext ==
    \/ start_sampling /\ UNCHANGED <<engineVars, managerVars, planVars, eligVars, queryVars, auxVars>>
    \/ tick_capture /\ UNCHANGED <<engineVars, managerVars, planVars, eligVars, queryVars, auxVars>>
    \/ tick_failed /\ UNCHANGED <<engineVars, managerVars, planVars, eligVars, queryVars, auxVars>>
    \/ tick_lock /\ UNCHANGED <<engineVars, managerVars, planVars, eligVars, queryVars, auxVars>>
    \/ tick_memory /\ UNCHANGED <<engineVars, managerVars, planVars, eligVars, queryVars, auxVars>>
    \/ tick_append /\ UNCHANGED <<engineVars, managerVars, planVars, eligVars, queryVars, auxVars>>
    \/ tick_retain /\ UNCHANGED <<engineVars, managerVars, planVars, eligVars, queryVars, auxVars>>
    \/ clear_samples /\ UNCHANGED <<engineVars, managerVars, planVars, eligVars, queryVars, auxVars>>

SpecSamplerMem == InitSamplerMem /\ [][SamplerMemNext]_vars


\* Plan caches of the small and of the default capacity.
InitPlanCache ==
    /\ EngineInit
    /\ ManagerInit
    /\ SamplerIdle
    /\ PlanInit
    /\ EligIdle
    /\ QueryIdle
    /\ AuxIdle

PlanCacheNext ==
    \/ CheckAndUpdate /\ UNCHANGED <<engineVars, managerVars, samplerVars, eligVars, queryVars, auxVars>>
    \/ GetPreviousHash /\ UNCHANGED <<engineVars, managerVars, samplerVars, eligVars, queryVars, auxVars>>

SpecPlanCache == InitPlanCache /\ [][PlanCacheNext]_vars

\* Every Capabilities value, with each implementation asked about it.
InitEligibility ==
    /\ EngineInit
    /\ ManagerInit
    /\ SamplerIdle
    /\ PlanIdle
    /\ EligInit
    /\ QueryIdle
    /\ AuxIdle

EligibilityNext ==
    \/ EvalCapabilities /\ UNCHANGED <<engineVars, managerVars, samplerVars, planVars, queryVars, auxVars>>
    \/ EvalOHIValidations /\ UNCHANGED <<engineVars, managerVars, samplerVars, planVars, queryVars, auxVars>>
    \/ EvalGate /\ UNCHANGED <<engineVars, managerVars, samplerVars, planVars, queryVars, auxVars>>

SpecEligibility == InitEligibility /\ [][EligibilityNext]_vars

\* Every dispatch input, with each executor asked.
InitDispatch ==
    /\ EngineInit
    /\ ManagerInit
    /\ SamplerIdle
    /\ PlanIdle
    /\ EligIdle
    /\ QueryInit
    /\ AuxIdle

DispatchNext ==
    \/ SelectQueryVersion /\ UNCHANGED <<engineVars, managerVars, samplerVars, planVars, eligVars, threshVars, textVars, auxVars>>
    \/ DispatchOhi /\ UNCHANGED <<engineVars, managerVars, samplerVars, planVars, eligVars, threshVars, textVars, auxVars>>
    \/ DispatchSafe /\ UNCHANGED <<engineVars, managerVars, samplerVars, planVars, eligVars, threshVars, textVars, auxVars>>

SpecDispatch == InitDispatch /\ [][DispatchNext]_vars

\* Every configured pair of thresholds, validated.
InitThresholds ==
    /\ EngineInit
    /\ ManagerInit
    /\ SamplerIdle
    /\ PlanIdle
    /\ EligIdle
    /\ d_in = NoInput
    /\ d_out = NoOut
    /\ ThresholdInit
    /\ TextIdle
    /\ AuxIdle

ThresholdNext ==
    \/ ValidateCountThreshold /\ UNCHANGED <<engineVars, managerVars, samplerVars, planVars, eligVars, dispVars, textVars, auxVars>>
    \/ ValidateResponseThreshold /\ UNCHANGED <<engineVars, managerVars, samplerVars, planVars, eligVars, dispVars, textVars, auxVars>>
    \/ BuildCommonParameters /\ UNCHANGED <<engineVars, managerVars, samplerVars, planVars, eligVars, dispVars, textVars, auxVars>>

SpecThresholds == InitThresholds /\ [][ThresholdNext]_vars

\* Every slow-query text and sanitizer, retained on each path.
InitText ==
    /\ EngineInit
    /\ ManagerInit
    /\ SamplerIdle
    /\ PlanIdle
    /\ EligIdle
    /\ d_in = NoInput
    /\ d_out = NoOut
    /\ th_in = NoThresholds
    /\ th_out = NoValidated
    /\ TextInit
    /\ AuxIdle

TextNext ==
    \/ OhiSlowQueries /\ UNCHANGED <<engineVars, managerVars, samplerVars, planVars, eligVars, dispVars, threshVars, auxVars>>
    \/ CycleSlowQueries /\ UNCHANGED <<engineVars, managerVars, samplerVars, planVars, eligVars, dispVars, threshVars, auxVars>>

SpecText == InitText /\ [][TextNext]_vars

\* The mvp engine collecting plans over a few cycles.
InitPlans ==
    /\ EngineInit
    /\ ManagerInit
    /\ SamplerIdle
    /\ PlanIdle
    /\ EligIdle
    /\ QueryIdle
    /\ MvpInit
    /\ CallsIdle
    /\ ReadyIdle
    /\ BreakerIdle
    /\ TrackerIdle

PlansNext ==
    \/ collect_execution_plans_begin /\ UNCHANGED <<engineVars, managerVars, samplerVars, eligVars, queryVars, callVars, readyVars, breakerVars, trackerVars>>
    \/ plan_step_err /\ UNCHANGED <<engineVars, managerVars, samplerVars, eligVars, queryVars, callVars, readyVars, breakerVars, trackerVars>>
    \/ plan_step_ok /\ UNCHANGED <<engineVars, managerVars, samplerVars, eligVars, queryVars, callVars, readyVars, breakerVars, trackerVars>>
    \/ collect_execution_plans_return /\ UNCHANGED <<engineVars, managerVars, samplerVars, eligVars, queryVars, callVars, readyVars, breakerVars, trackerVars>>

SpecPlans == InitPlans /\ [][PlansNext]_vars

EngineNext ==
    \/ StartCycle /\ UNCHANGED <<managerVars, samplerVars, planVars, eligVars, queryVars, auxVars>>
    \/ DetectAcquire /\ UNCHANGED <<managerVars, samplerVars, planVars, eligVars, queryVars, auxVars>>
    \/ DetectVersion /\ UNCHANGED <<managerVars, samplerVars, planVars, eligVars, queryVars, auxVars>>
    \/ DetectExtensions /\ UNCHANGED <<managerVars, samplerVars, planVars, eligVars, queryVars, auxVars>>
    \/ CheckIsRds /\ UNCHANGED <<managerVars, samplerVars, planVars, eligVars, queryVars, auxVars>>
    \/ CheckSuperuser /\ UNCHANGED <<managerVars, samplerVars, planVars, eligVars, queryVars, auxVars>>
    \/ Acquire /\ UNCHANGED <<managerVars, samplerVars, planVars, eligVars, queryVars, auxVars>>
    \/ CollectSlowQueries /\ UNCHANGED <<managerVars, samplerVars, planVars, eligVars, queryVars, auxVars>>
    \/ CollectBlockingSessions /\ UNCHANGED <<managerVars, samplerVars, planVars, eligVars, queryVars, auxVars>>
    \/ CollectWaitEvents /\ UNCHANGED <<managerVars, samplerVars, planVars, eligVars, queryVars, auxVars>>
    \/ CollectIndividualQueries /\ UNCHANGED <<managerVars, samplerVars, planVars, eligVars, queryVars, auxVars>>
    \/ CollectExecutionPlans /\ UNCHANGED <<managerVars, samplerVars, planVars, eligVars, queryVars, auxVars>>
    \/ CollectExtendedMetrics /\ UNCHANGED <<managerVars, samplerVars, planVars, eligVars, queryVars, auxVars>>
    \/ Return /\ UNCHANGED <<managerVars, samplerVars, planVars, eligVars, queryVars, auxVars>>

\* Engines of every configuration.
InitEngine ==
    /\ EngineConfigured
    /\ ManagerInit
    /\ SamplerIdle
    /\ PlanIdle
    /\ EligIdle
    /\ QueryIdle
    /\ AuxIdle

SpecEngine == InitEngine /\ [][EngineNext]_vars

(***************************************************************************)
(* Claims about the collection cycle                                       *)
(***************************************************************************)

\* What a category's collection is in a cycle in which its own query does not fail.
Unaffected(category) ==
    IF Gate(caps, category) THEN DbResults(category) ELSE {<<>>}

\* C1: when the dispatch of one category fails, the cycle still returns a snapshot
\* (Ok) in which that category's collection is empty and every other category's
\* collection is what it would have been without the failure.
C1_CategoryFailureIsolated ==
    (pc = "returned" /\ failed # {}) =>
        /\ result = "Ok"
        /\ \A c \in failed : metrics[c] = <<>>
        /\ \A c \in Categories \ failed : metrics[c] \in Unaffected(c)

\* C2: no category query is dispatched before this cycle's capability detection
\* has returned Ok, and when detection fails nothing is dispatched and the cycle
\* has returned an error.
C2_DetectBeforeDispatch ==
    /\ (dispatched # <<>> => (detect_result = "Ok" /\ IsSome(caps)))
    /\ (detect_result = "Err" =>
            (dispatched = <<>> /\ result = "Err" /\ pc = "returned"))

\* C2 witness: a cycle that detected its capabilities and then dispatched all four
\* categories.
C2_Witness ==
    /\ detect_result = "Ok"
    /\ Len(dispatched) = Cardinality(Categories)
    /\ result = "Ok"

\* C3: capability detection returns an error only when the version query fails (a
\* failure to reach the server at all included); a failure of the extension-catalog
\* query or of the managed-service query does not abort the cycle.
C3_OnlyVersionFailureIsFatal ==
    detect_result = "Err" => err_at \in {"detect_acquire", "detect_version"}

\* C4: every category query dispatched in a cycle is eligible under the
\* capabilities detected in that cycle.
C4_DispatchedOnlyIfEligible ==
    \A i \in 1..Len(dispatched) : Eligible(caps, dispatched[i])


(***************************************************************************)
(* Claims about the multi-instance manager                                 *)
(***************************************************************************)

\* C5: collect_all returns Ok with a map whose keys are exactly the registered
\* instances whose collection succeeded in this call, each mapped to the snapshot
\* its own engine returned in this call, whatever the other instances did.
C5_KeysAreSucceededInstances ==
    (m_pc = "idle" /\ completed > 0) =>
        /\ m_ret = "Ok"
        /\ DOMAIN combined = {n \in instances : task[n] = "Ok"}
        /\ \A n \in DOMAIN combined : combined[n] = Snapshot(n, round)

\* C5 witness: a returned collect_all in which one instance failed and another
\* succeeded.
C5_Witness ==
    /\ m_pc = "idle"
    /\ completed > 0
    /\ \E a, b \in instances : task[a] = "Err" /\ task[b] = "Ok"

\* C6: a send_all_metrics that begins after a collect_all in which an instance
\* failed exports no snapshot of an earlier cycle for that instance.
C6_FailedInstanceNotExported ==
    \A e \in exported :
        e.name \in s_since.failed => e.metrics.round > s_since.completed


(***************************************************************************)
(* Claims about the active-session sampler                                 *)
(***************************************************************************)

\* C7: whatever the ticks captured and whenever clear_samples and
\* get_recent_samples were called, the buffer holds at most max_samples samples.
C7_BufferWithinMaxSamples ==
    Len(samples) <= cfg.max_samples

\* C7 witness: a full buffer whose front sample is the second session of its tick:
\* the insertion loop has removed the first one to stay within max_samples.
C7_Witness ==
    /\ Len(samples) = cfg.max_samples
    /\ samples # <<>>
    /\ Head(samples).pid = 2
    /\ ret_kind = "copy"

\* C8: after a tick the memory estimate of the buffer exceeds the configured ceiling
\* by at most the estimate of one eviction batch (a tenth of the buffer).
C8_MemoryWithinCeilingPlusBatch ==
    t_pc = "waiting" =>
        estimate_memory_usage(samples) <=
            cfg.max_memory_mb
                + estimate_memory_usage(SubSeq(samples, 1, Len(samples) \div 10))

\* The sample the tick at time t captures when one session is active.
Single(t) == [sample_time |-> t, pid |-> 1]

\* C9: without memory or retention eviction (and without clear_samples), after n
\* ticks of one session each the buffer holds exactly the samples of the last
\* min(n, max_samples) ticks, oldest first.
C9_HoldsMostRecentInOrder ==
    (clean /\ t_pc = "waiting") =>
        LET n == Ticks
            m == Min(n, cfg.max_samples)
        IN  samples = [i \in 1..m |-> Single((n - m + i) * cfg.sample_interval)]

\* C9 witness: max_samples = 5 and 7 ticks of one session each: the buffer holds the
\* samples of ticks 3..7.
C9_Witness ==
    /\ clean
    /\ t_pc = "waiting"
    /\ cfg.max_samples = 5
    /\ Ticks = 7
    /\ Len(samples) = 5

\* C10: no step changes both the buffer and the collection a caller was handed, and
\* the collection changes only by the caller's own mutation or by a new
\* get_recent_samples, which copies the buffer while no tick holds it.
C10_ReturnedIsIndependentCopy ==
    [][/\ ~(samples' # samples /\ returned' # returned)
       /\ returned' # returned =>
            \/ returned' = pop_front(returned)
            \/ (returned' = samples /\ lock = "free")]_vars

\* C10 witness: a caller holds a copy taken before later ticks changed the buffer.
C10_Witness ==
    /\ ret_kind = "copy"
    /\ returned # <<>>
    /\ samples # <<>>
    /\ returned # samples
    /\ Head(samples).sample_time > returned[Len(returned)].sample_time

\* C11: a tick whose connection acquisition or session query fails (the timer
\* advances and the task is back at the timer in the same step) leaves the buffer
\* as it was and the task ready for the next tick, with the lock not taken.
C11_FailedTickLeavesBuffer ==
    [][(t_pc = "waiting" /\ now' # now /\ t_pc' = "waiting") =>
          /\ samples' = samples
          /\ lock' = lock
          /\ current_samples' = current_samples]_vars

\* C11 witness: the tick after a failed one has run to its end and its samples are
\* at the back of a buffer that still holds what it held before the failure.
C11_Witness ==
    /\ after_failure = "resumed"
    /\ t_pc = "waiting"
    /\ Len(samples) >= 2
    /\ samples[Len(samples)].sample_time = now
    /\ Head(samples).sample_time < now - cfg.sample_interval

\* C12: in a successful tick the insertion loop starts only after the memory check
\* found the estimate within the ceiling or after it removed a tenth of the buffer
\* from the front (nothing of the tick appended yet); the retention loop starts only
\* when every captured sample has been appended, and removes only front samples older
\* than the cutoff.
C12_TickOrder ==
    [][/\ (t_pc # "append" /\ t_pc' = "append") =>
            IF t_pc = "mem"
            THEN estimate_memory_usage(samples) <= cfg.max_memory_mb
            ELSE t_pc = "evict" /\ to_remove = 0
       /\ (t_pc = "mem" /\ t_pc' = "evict") =>
            /\ estimate_memory_usage(samples) > cfg.max_memory_mb
            /\ to_remove' = Len(samples) \div 10
       /\ (t_pc = "evict" /\ samples' # samples) =>
            /\ samples' = Tail(samples)
            /\ current_samples = Captured(Len(current_samples), now)
            /\ \A i \in 1..Len(samples) : samples[i].sample_time < now
       /\ (t_pc # "retain" /\ t_pc' = "retain") =>
            t_pc = "append" /\ current_samples = <<>>
       /\ (t_pc = "retain" /\ samples' # samples) =>
            /\ samples' = Tail(samples)
            /\ Head(samples).sample_time < Cutoff]_vars

\* C12 witness: a tick is at its retention loop after the memory check removed the
\* oldest tenth of a buffer of two big batches and the insertion loop appended.
C12_Witness ==
    /\ t_pc = "retain"
    /\ samples # <<>>
    /\ Head(samples).pid = (2 * BigBatch) \div 10 + 1
    /\ Head(samples).sample_time < now
    /\ samples[Len(samples)].sample_time = now

(***************************************************************************)
(* Claims about the plan cache                                             *)
(***************************************************************************)

\* C13: as long as no entry has been evicted, check_regression answers false to the
\* first call for a query id, and to a later call answers true exactly when the hash
\* differs from the hash of the latest earlier call for that id.
C13_RegressionIffHashDiffers ==
    (plan_ret.op = "check_regression" /\ ~evicted) =>
        (plan_ret.ret <=> (plan_ret.before # NoHash /\ plan_ret.before # plan_ret.hash))

\* C13 witness: with nothing evicted, a call for an id seen before has passed a
\* different hash, was answered true, and the cache now stores the new hash.
C13_Witness ==
    /\ ~evicted
    /\ plan_ret.op = "check_regression"
    /\ plan_ret.ret
    /\ plan_ret.before # NoHash
    /\ LruPeek(plan_cache, plan_ret.query_id) = plan_ret.hash

\* The query id whose latest check_regression call is the oldest among the cached ones.
LeastRecentlyUsed(cache) ==
    Head(SelectSeq(use_order, LAMBDA q : q \in Keys(cache)))

\* C14: the cache never holds more entries than its capacity nor two entries of one
\* query id, and an entry leaves the cache only in a step that inserts a new id into
\* a full cache, and then it is the entry of the least recently used id.
C14_BoundedLru ==
    [][/\ Len(plan_cache') <= plan_capacity
       /\ Cardinality(Keys(plan_cache')) = Len(plan_cache')
       /\ \A q \in Keys(plan_cache) \ Keys(plan_cache') :
            /\ Len(plan_cache) = plan_capacity
            /\ Keys(plan_cache') \ Keys(plan_cache) # {}
            /\ q = LeastRecentlyUsed(plan_cache)]_vars

\* C14 witness: the first call for a new id found the cache full, and the id whose
\* latest call was the oldest is no longer cached.
C14_Witness ==
    /\ evicted
    /\ Len(plan_cache) = plan_capacity
    /\ plan_ret.op = "check_regression"
    /\ plan_ret.before = NoHash
    /\ Len(use_order) = plan_capacity + 1
    /\ Head(use_order) \notin Keys(plan_cache)

(***************************************************************************)
(* Claims about capabilities and eligibility                               *)
(***************************************************************************)

\* What the detection queries of the current cycle answered, as a Capabilities value.
DetectedCaps ==
    [version |-> det.version, is_rds |-> det.is_rds,
     extensions |-> ExtensionMap(det.installed)]

\* C15: once the detection of a cycle has returned, the capabilities the cycle works
\* with are the ones its own detection queries answered, and every gate and every
\* choice of query text of the cycle follows from them, whatever an earlier cycle
\* had cached.
C15_DecisionsUseThisCycle ==
    detect_result = "Ok" =>
        /\ SameDatabase(caps, DetectedCaps)
        /\ \A i \in 1..Len(dispatched) :
              dialects[i] = Dialect(dispatched[i], DetectedCaps)
        /\ dispatched # <<>> =>
              (dispatched[1] = "slow_queries" <=> Gate(DetectedCaps, "slow_queries"))

\* C15 witness: a cycle whose detection found another database state than the one
\* cached by the cycle before it has dispatched its queries and returned.
C15_Witness ==
    /\ cycle >= 2
    /\ caps_changed
    /\ result = "Ok"
    /\ Len(dispatched) >= 3

\* The extension is present in the value and its entry is enabled.
PresentAndEnabled(c, name) ==
    \E n \in DOMAIN c.extensions : n = name /\ c.extensions[n].enabled

\* The value with every entry that is not enabled left out.
StripDisabled(c) ==
    [c EXCEPT !.extensions =
        [n \in {x \in DOMAIN c.extensions : c.extensions[x].enabled} |->
            c.extensions[n]]]

\* C16: for a Capabilities value with an empty extension map, the methods of
\* Capabilities and the functions of OHIValidations let no category through, except
\* blocking sessions on versions 12 and 13.
C16_EmptyExtensionsOnlyBlocking ==
    (e_verdict.impl \in {"Capabilities", "OHIValidations"}
        /\ DOMAIN e_caps.extensions = {}) =>
        e_verdict.eligible =
            (IF e_caps.version \in {12, 13} THEN {"blocking_sessions"} ELSE {})

\* C17: every implementation lets wait events through exactly when
\* pg_stat_statements is present and enabled and pg_wait_sampling is present and
\* enabled or the instance is managed.
C17_WaitEventsEligibility ==
    e_verdict.impl # "none" =>
        ("wait_events" \in e_verdict.eligible <=>
            /\ PresentAndEnabled(e_caps, "pg_stat_statements")
            /\ (PresentAndEnabled(e_caps, "pg_wait_sampling") \/ e_caps.is_rds))

\* C18: the methods of Capabilities and the functions of OHIValidations let blocking
\* sessions through on versions 12 and 13, on versions from 14 exactly when
\* pg_stat_statements is present and enabled, and never below version 12.
C18_BlockingSessionsEligibility ==
    e_verdict.impl \in {"Capabilities", "OHIValidations"} =>
        ("blocking_sessions" \in e_verdict.eligible <=>
            \/ e_caps.version \in {12, 13}
            \/ (e_caps.version >= 14 /\ PresentAndEnabled(e_caps, "pg_stat_statements")))

\* C19: every implementation lets individual queries through exactly when
\* pg_stat_monitor is present and enabled or the instance is managed.
C19_IndividualQueriesEligibility ==
    e_verdict.impl # "none" =>
        ("individual_queries" \in e_verdict.eligible <=>
            (PresentAndEnabled(e_caps, "pg_stat_monitor") \/ e_caps.is_rds))

C21_SelectQueryVersion ==
    d_out.executor = "select_query_version" =>
        LET v == d_in.version
            expected ==
                CASE d_out.query_key = "slow_queries" ->
                        IF v >= 13 THEN "slow_queries_v13+"
                        ELSE IF v = 12 THEN "slow_queries_v12" ELSE "none"
                  [] d_out.query_key = "individual" ->
                        IF v >= 13 THEN "individual_v13+"
                        ELSE IF v = 12 THEN "individual_v12" ELSE "none"
                  [] d_out.query_key = "blocking" ->
                        IF v >= 14 THEN "blocking_v14+"
                        ELSE IF v \in {12, 13} THEN "blocking_v12_13" ELSE "none"
                  [] OTHER -> "any"
        IN  \/ expected = "any"
            \/ expected = "none" /\ d_out.kind = "UnsupportedVersion"
            \/ expected # "none" /\ d_out.kind = "Ok" /\ d_out.key = expected

\* C21 witness: blocking sessions were resolved for version 13.
C21_Witness ==
    /\ d_out.executor = "select_query_version"
    /\ d_out.query_key = "blocking"
    /\ d_in.version = 13
    /\ d_out.key = "blocking_v12_13"

\* C22: every dispatch path the cycle uses fails with UnsupportedVersion below major
\* version 12: the slow-query, blocking-session and individual-query dispatchers of
\* SafeQueryExecutor, and the managed variant of the blocking-session dispatcher of
\* OHICompatibleQueryExecutor.
C22_UnsupportedBelow12 ==
    (/\ d_in.version < 12
     /\ \/ /\ d_out.executor = "SafeQueryExecutor"
           /\ d_in.category \in {"slow_queries", "blocking_sessions", "individual_queries"}
        \/ /\ d_out.executor = "OHICompatibleQueryExecutor"
           /\ d_in.category = "blocking_sessions"
           /\ d_in.is_rds)
        => d_out.kind = "UnsupportedVersion"

\* The statement the executor named in d_out sends for the input in.
SqlSent(in) ==
    IF d_out.executor = "SafeQueryExecutor"
    THEN SafeExecute(in.category, CommonParams(in), in.version, in.is_rds).sql
    ELSE OhiExecute(in.category, CommonParams(in)).sql

\* C24: the SQL text sent for a category depends only on the category, the version and
\* the managed flag: any dispatch with the same three sends the same text, whatever
\* its database list and thresholds.
C24_SqlTextIgnoresValues ==
    (d_out.executor \in {"SafeQueryExecutor", "OHICompatibleQueryExecutor"}
        /\ d_out.kind = "Ok") =>
        \A other \in DispatchInputs :
            (/\ other.category = d_in.category
             /\ other.version = d_in.version
             /\ other.is_rds = d_in.is_rds) => SqlSent(other) = d_out.sql

(***************************************************************************)
(* Claims about the collection cycle, continued                            *)
(***************************************************************************)

\* C23: when the version query returns no value, the version counts as unsupported: no
\* category is dispatched in that cycle.
C23_UnknownVersionNotDispatched ==
    (det.version # 0 /\ ~det.version_row.some) => dispatched = <<>>

(***************************************************************************)
(* Claims about threshold validation                                       *)
(***************************************************************************)

\* C25: validate_count_threshold(t) is 20 for t < 0, 30 for t > 30 and t otherwise, so
\* it lies in 0..30; the count threshold of the CommonParameters of a cycle is that
\* value.
C25_CountThresholdClamped ==
    th_out.fn \in {"validate_count_threshold", "CommonParameters"} =>
        /\ th_out.count \in 0..30
        /\ th_out.count = (IF th_in.count < 0 THEN 20
                           ELSE IF th_in.count > 30 THEN 30 ELSE th_in.count)

\* C25 witness: CommonParameters were built from a configured count above 30.
C25_Witness ==
    /\ th_out.fn = "CommonParameters"
    /\ th_in.count > 30
    /\ th_out.count = 30

\* C26: validate_response_threshold(t) is 500 for t < 0 and t otherwise.
C26_ResponseThresholdDefaulted ==
    th_out.fn \in {"validate_response_threshold", "CommonParameters"} =>
        th_out.response = (IF th_in.response < 0 THEN 500 ELSE th_in.response)

\* C26 witness: a negative response-time threshold was validated.
C26_Witness ==
    /\ th_out.fn = "validate_response_threshold"
    /\ th_in.response < 0
    /\ th_out.response = 500

(***************************************************************************)
(* Claims about locks                                                      *)
(***************************************************************************)

\* C27: no lock is held across a suspension point: the sampler does not hold its
\* buffer lock while it waits for the tick or for the session fetch, and while a
\* collection or an export is awaited MultiInstanceManager holds neither a guard of
\* the instance map nor a guard of an instance's metrics.
C27_NoLockWhileSuspended ==
    /\ t_pc = "waiting" => lock # "sampler"
    /\ (\E n \in InstanceNames : task[n] = "running") => map_readers = {}
    /\ s_cur # 0 => (map_readers = {} /\ metrics_guard[s_cur] = "free")

(***************************************************************************)
(* Claims about execution plans                                            *)
(***************************************************************************)

\* C28: once the plan step of a cycle is over, the snapshot holds at most 10 plans,
\* they are the plans of exactly those of the first 10 individual queries whose plan
\* query did not fail, in order, and the cycle has not failed at the plan step.
C28_AtMostTenPlansFailuresSkipped ==
    /\ err_at # "execution_plans"
    /\ pc = "extended_metrics" =>
          LET first == SubSeq(metrics.individual_queries, 1,
                              Min(Len(metrics.individual_queries), 10))
              kept == SelectSeq(first, LAMBDA q : q.query_text.some
                                                    /\ q.query_id \notin plan_failed)
          IN  /\ Len(metrics.execution_plans) <= 10
              /\ metrics.execution_plans = [i \in 1..Len(kept) |-> PlanFor(kept[i])]

\* C28 witness: more than 10 individual queries were collected, a plan query in the
\* middle failed, and plans of later queries are in the snapshot.
C28_Witness ==
    /\ pc = "extended_metrics"
    /\ Len(metrics.individual_queries) > 10
    /\ 2 \in plan_failed
    /\ Len(metrics.execution_plans) = 9
    /\ metrics.execution_plans[9] = <<"plan", 10>>

(***************************************************************************)
(* Claims about the active session history                                 *)
(***************************************************************************)

\* C29: a snapshot returned by a successful cycle of an engine with the sampler
\* enabled holds the copy get_recent_samples returned in that cycle, whatever the
\* other feature flags; with the sampler not enabled its history is empty.
C29_HistoryIffSamplerEnabled ==
    (pc = "returned" /\ result = "Ok") =>
        IF config.enable_ash
        THEN ash_copy.some /\ metrics.active_session_history = ash_copy.v
        ELSE metrics.active_session_history = <<>>

(***************************************************************************)
(* Claims about slow-query text                                            *)
(***************************************************************************)

\* C30: a slow-query text with "alter" in it, in any letter case, is retained in the
\* snapshot with its literals and numbers replaced, and the dispatcher hands on a
\* text without "alter" exactly as the database returned it.
C30_AlterTextAnonymized ==
    tx_out.path = "collect_all_metrics" =>
        /\ ContainsAlter(tx_in.text) =>
              \A i \in 1..Len(tx_out.text) :
                  tx_out.text[i] \notin StringLiterals \cup NumberLiterals
        /\ ~ContainsAlter(tx_in.text) => tx_out.fetched = tx_in.text

(***************************************************************************)
(* Claims about plan collection of the mvp engine                          *)
(***************************************************************************)

\* C31: a plan with the same tree of node type, join type and index name as the plan
\* observed before it for the same query identity has the same plan hash, whatever
\* its costs, and is not reported as a regression.
C31_CostDriftIsNoRegression ==
    \A i \in 1..Len(pl_emitted) :
        (/\ pl_observed[i].previous_plan.some
         /\ Structure(pl_observed[i].previous_plan.v) = Structure(pl_observed[i].plan))
            => /\ pl_emitted[i].plan_hash
                      = generate_plan_hash(pl_observed[i].previous_plan.v)
               /\ ~pl_emitted[i].is_regression

\* C31 witness: a nested plan was observed after one of the same tree and other costs.
C31_Witness ==
    \E i \in 1..Len(pl_emitted) :
        /\ pl_observed[i].plan = NestedLoop(2, 2)
        /\ pl_observed[i].previous_plan = [some |-> TRUE, v |-> NestedLoop(1, 1)]
        /\ ~pl_emitted[i].is_regression

(***************************************************************************)
(* Claims about the active-session sampler, continued                      *)
(***************************************************************************)

\* C32: clear_samples, whenever it completes (the task stopped, waiting for its tick,
\* or between its capture and its insertion), leaves the buffer empty and leaves the
\* sampling task, its captured samples, the lock and the configuration as they were.
C32_ClearOnlyEmptiesBuffer ==
    [][clear_samples =>
          /\ samples' = <<>>
          /\ UNCHANGED <<t_pc, current_samples, to_remove, lock, cfg, now>>]_vars

\* C32 witness: a sample a caller copied earlier is gone from the buffer although
\* neither the retention window nor the sample limit can have removed it, and a later
\* tick has appended to the buffer and is waiting for the next one.
C32_Witness ==
    /\ ret_kind = "copy"
    /\ returned # <<>>
    /\ samples # <<>>
    /\ t_pc = "waiting"
    /\ returned[1].sample_time < Head(samples).sample_time
    /\ Cutoff <= returned[1].sample_time
    /\ Len(samples) + 1 < cfg.max_samples

\* C35: the buffer is always ordered by non-decreasing sample time, and when a tick
\* that captured its sessions has completed, no sample anywhere in the buffer is older
\* than the retention window.
C35_OrderedAndWithinRetention ==
    /\ \A i \in 1..Len(samples) : \A j \in i..Len(samples) :
          samples[i].sample_time <= samples[j].sample_time
    /\ (t_pc = "waiting" /\ after_failure # "failed")
          => \A i \in 1..Len(samples) : samples[i].sample_time >= Cutoff

\* C35 witness: a caller's copy holds a sample that has since left the retention
\* window and a sample that is still at the front of the buffer, so nothing cleared
\* the buffer in between, and the buffer is too short for the sample limit to have
\* removed the older one: the completed tick's retention loop popped it.
C35_Witness ==
    /\ t_pc = "waiting"
    /\ after_failure # "failed"
    /\ ret_kind = "copy"
    /\ Len(returned) >= 2
    /\ returned[1].sample_time < Cutoff
    /\ Len(samples) >= 2
    /\ returned[Len(returned)] = samples[1]
    /\ samples[1].sample_time < samples[Len(samples)].sample_time
    /\ Len(samples) + 1 < cfg.max_samples

(***************************************************************************)
(* Claims about MultiInstanceManager, continued                            *)
(***************************************************************************)

\* The instances send_all_metrics has called send_metrics for.
SendAttempted == {e.name : e \in exported}

\* C33: when send_all_metrics has returned, it returned an error exactly when a send
\* failed, every failed send was followed by the sends of the instances still to
\* visit, and, when no collection stored a snapshot meanwhile, a send was attempted
\* for exactly the instances that hold a snapshot.
C33_SendsAllAndReportsAnyFailure ==
    (s_pc = "idle" /\ s_ret # "none") =>
        /\ (s_ret = "Err") <=> (s_errors # {})
        /\ s_errors \subseteq SendAttempted
        /\ \A n \in instances : n \in SendAttempted => store[n] # NoMetrics
        /\ (m_pc = "idle" /\ completed = s_since.completed) =>
              SendAttempted = {n \in instances : store[n] # NoMetrics}

\* C33 witness: both instances hold a snapshot, the send of one failed, the other's
\* was made all the same, and the call returned an error.
C33_Witness ==
    /\ s_pc = "idle"
    /\ s_ret = "Err"
    /\ m_pc = "idle"
    /\ completed = s_since.completed
    /\ Cardinality(s_errors) = 1
    /\ SendAttempted = InstanceNames

(***************************************************************************)
(* Claims about the plan collection of a cycle                             *)
(***************************************************************************)

\* The collected slow queries whose mean latency exceeds the threshold.
OverThreshold ==
    {i \in 1..Len(pl_queries) :
        pl_queries[i].mean_time_ms > pl_cfg.plan_collection_threshold_ms}

\* The queries collect_execution_plans asked a plan for.
AttemptedIds == {pl_attempted[i] : i \in 1..Len(pl_attempted)}

\* C34: when collect_execution_plans has run its loop, every attempted query exceeds
\* the threshold, and whenever at least max_plans_per_cycle collected slow queries
\* exceed the threshold, exactly max_plans_per_cycle plans were attempted.
C34_PlansForTopSlowQueries ==
    (pl_todo.some /\ pl_todo.v = <<>>) =>
        /\ AttemptedIds \subseteq OverThreshold
        /\ Cardinality(OverThreshold) >= pl_cfg.max_plans_per_cycle
              => Cardinality(AttemptedIds) = pl_cfg.max_plans_per_cycle

\* C36: every emitted plan record with is_regression = true carries as
\* previous_plan_hash the hash the cache held for the query before this observation,
\* which differs from the record's plan_hash; a record with is_regression = false
\* carries none.
C36_PreviousHashIsTheReplacedOne ==
    \A i \in 1..Len(pl_emitted) :
        IF pl_emitted[i].is_regression
        THEN /\ pl_emitted[i].previous_plan_hash = pl_observed[i].stored_before
             /\ pl_emitted[i].previous_plan_hash.some
             /\ pl_emitted[i].previous_plan_hash.v # pl_emitted[i].plan_hash
        ELSE pl_emitted[i].previous_plan_hash = NoPlan

(***************************************************************************)
(* Claims about the locks of MultiInstanceManager                          *)
(***************************************************************************)

\* A call of the manager has been entered and has not returned, or waits for the
\* write guard of the instance map.
CallInProgress ==
    \/ m_pc # "idle"
    \/ s_pc # "idle"
    \/ g_pc # "idle"
    \/ h_pc # "idle"
    \/ r_pc # "idle"

\* A step of a call in progress: the return of an awaited collection or export, a
\* guard granted, a loop iteration or the return of the call.
CallStep ==
    \/ \E n \in InstanceNames : future_engine_ok(n)
    \/ \E n \in InstanceNames : future_engine_err(n)
    \/ \E n \in InstanceNames : future_store(n)
    \/ collect_all_return
    \/ \E n \in InstanceNames : send_one(n)
    \/ \E n \in InstanceNames : send_metrics_returns(n)
    \/ send_all_metrics_return
    \/ get_instance_metrics_return
    \/ \E n \in InstanceNames : health_check_one(n)
    \/ health_check_return
    \/ remove_instance_return

\* C37: in every state the concurrent calls of collect_all, send_all_metrics,
\* get_instance_metrics, health_check and remove_instance can reach, if a call is in
\* progress then some call in progress can take a step: no set of calls waits for
\* one another's guards.
C37_NoDeadlock == CallInProgress => ENABLED CallStep

\* C37 witness: the longest chain of waits: remove_instance waits for the map's read
\* guards, health_check waits for the metrics lock of an instance behind the queued
\* write of collect_all's future, which waits for the read guard send_all_metrics
\* holds across the export it awaits.
C37_Witness ==
    /\ r_pc = "waiting"
    /\ m_pc = "joining"
    /\ s_cur # 0
    /\ MetricsWriterQueued(s_cur)
    /\ h_pc = "loop"
    /\ h_todo = {s_cur}
    /\ g_pc = "map"
    /\ g_name = s_cur

(***************************************************************************)
(* Claims about the health server                                          *)
(***************************************************************************)

C39_OpenIffThresholdAndRecent ==
    /\ is_open(breaker, b_now) <=>
          /\ b_since >= breaker.threshold
          /\ breaker.last_failure.some
          /\ b_now - breaker.last_failure.v <= breaker.reset_timeout
    /\ (b_ret.op = "is_open" /\ b_ret.at = b_now) =>
          b_ret.open = is_open(breaker, b_now)
    /\ b_ret.op = "record_success" =>
          /\ breaker.failure_count = 0
          /\ ~is_open(breaker, b_now)

\* C39 witness: the threshold was reached and is_open() answers false, the last
\* failure being older than reset_timeout.
C39_Witness ==
    /\ b_ret = [op |-> "is_open", open |-> FALSE, at |-> b_now]
    /\ b_since >= breaker.threshold
    /\ breaker.threshold = 2
    /\ b_now - breaker.last_failure.v > breaker.reset_timeout

(***************************************************************************)
(* Claims about the cardinality tracker                                    *)
(***************************************************************************)

\* C40: under every interleaving of should_track_query calls the tracked set has at
\* most max_query_fingerprints elements, a fingerprint that was once answered true is
\* never answered false, and every fingerprint first seen when the limit was reached
\* is answered false and not tracked.
C40_TrackedSetBounded ==
    /\ Cardinality(query_fingerprints) <= limits.max_query_fingerprints
    /\ c_granted = query_fingerprints
    /\ c_granted \cap c_denied = {}
    /\ c_late \subseteq c_denied

\* C40 witness: a fingerprint first seen at the limit has been refused, and the last
\* call, made after that, answered true for a tracked fingerprint.
C40_Witness ==
    /\ limits.max_query_fingerprints = 2
    /\ Cardinality(query_fingerprints) = 2
    /\ c_late # {}
    /\ c_ret.track
    /\ c_ret.fingerprint \in query_fingerprints
    /\ c_mutex # 0

====
